---- MODULE Spec2Model ----
(***************************************************************************)
(* A model of the invoice extractor: the brand detector (main.py), the     *)
(* vendor table walks (extractors_*.py), the schema validator              *)
(* (validators.py), the extractor classes (base.py) and the batch driver   *)
(* (main.py).  Texts and table cells are strings, inspected character by   *)
(* character as the Python code does.  Amounts are IEEE 754 doubles: a     *)
(* sign, an odd mantissa of any length and a binary exponent.             *)
(***************************************************************************)
EXTENDS Integers, Sequences, FiniteSets, TLC

VARIABLES
    text,        \* detect_brand: the lower-cased full text of the document
    brand,       \* detect_brand: the value returned
    bpc,         \* detect_brand: "idle" | "start" | "detected"
    zdoc,        \* Zomato: the document, pages of tables of rows of cells
    zp,          \* Zomato: the page the walk is at
    zt,          \* Zomato: the table of that page the walk is at
    zr,          \* Zomato: the data row the walk is at
    line_items,  \* Zomato: line_items
    sl,          \* Zomato: sl
    net_value,   \* Zomato: net_value
    total_value, \* Zomato: total_value
    tax_value,   \* Zomato: tax_value
    zpc,         \* Zomato: "idle" | "page" | "table" | "rows" | "done"
    zret,        \* Zomato: what extract_table_and_totals returned
    adoc,        \* Amazon totals: the document, pages of tables
    aret,        \* Amazon totals: what extract_totals_amazon returned
    apc,         \* Amazon totals: "idle" | "start" | "done"
    field_map,   \* validator: the raw field map an extractor built
    vrec,        \* validator: InvoiceData(**field_map)
    vrec2,       \* validator: InvoiceData(**vrec.dict())
    vpc,         \* validator: "idle" | "build" | "validated" | "revalidated"
    fdoc,        \* Flipkart items: the tables of page 1
    fitems,      \* Flipkart items: the rows of the DataFrame returned
    fpc,         \* Flipkart items: "idle" | "start" | "done"
    ktables,     \* Blinkit: page.extract_tables() of page 1
    kdata,       \* Blinkit: data of BlinkitExtractor.extract_header
    khdr,        \* Blinkit: what BlinkitExtractor.extract_header returned
    kitems,      \* Blinkit: what extract_line_items returned
    kret,        \* Blinkit: what BaseExtractor.extract returned
    kpc,         \* Blinkit: "idle" | "start" | "items" | "return" |
                 \*          "raised" | "done"
    pdf_files,   \* batch: sorted(pdf_files)
    di,          \* batch: how many files the loop has taken
    ppc,         \* batch: "idle" | "loop" | "open" | "detect" | "factory" |
                 \*        "extract" | "write" | "except" | "returned"
    ptext,       \* process_invoice: text_lower
    pbrand,      \* process_invoice: brand
    extractor,   \* process_invoice: extractor
    header_dict, \* process_invoice: header_dict
    items_df,    \* process_invoice: items_df
    out_path,    \* batch: what process_invoice returned
    outputs,     \* batch: the files of the output folder
    workbooks,   \* batch: what the files of the output folder hold
    results,     \* batch: results
    idoc,        \* Instamart items: the tables of page 1
    iret,        \* Instamart items: what extract_items_and_totals returned
    ipc,         \* Instamart items: "idle" | "start" | "done"
    evendor,     \* extract: the vendor of the extractor
    edoc,        \* extract: the tables of the document
    erules,      \* extract: "ok" | "raises", the text rules of the header
    ehdr,        \* extract: what self.extract_header() returned
    eitems,      \* extract: what self.extract_line_items() returned
    eret,        \* extract: what extract() returned
    ecalls,      \* extract: the methods extract() has called, in order
    epc,         \* extract: "idle" | "start" | "items" | "return" |
                 \*          "raised" | "done"
    hdocs,       \* handles: the detected brand of each document of the batch
    hn,          \* handles: the index of the document in hand
    hs,          \* handles: the index of the with block in hand
    hopen,       \* handles: the open PDF handles, <<document, with block>>
    hout,        \* handles: how the last with body ended
    hpc,         \* handles: "idle" | "loop" | "enter" | "body" | "exit" |
                 \*          "next" | "raised" | "returned"
    cvariant,    \* cluster: "amazon" | "flipkart", the clusterer run
    cdoc,        \* cluster: the pages of the PDF, their glyphs and max_cols
    cp,          \* cluster: the number of pages gone through
    blocks,      \* cluster: the blocks collected so far
    cret,        \* cluster: what the clusterer returned or raised
    cpc,         \* cluster: "idle" | "pages" | "done"
    left_lines,  \* address: the lines of the left half of the page
    right_lines, \* address: the lines of the right half of the page
    capture,     \* address: the accumulation flag of the scan in hand
    customer_addr_lines, \* address: the customer address lines kept
    seller_addr_lines,   \* address: the seller address lines kept
    customer_address,    \* address: the customer address joined
    mi,          \* address: the index of the line in hand
    mdata,       \* address: the address fields of data
    mpc          \* address: "idle" | "normalize" | "customer" |
                 \*          "customer_join" | "seller" | "seller_join" |
                 \*          "done"

brandVars == <<text, brand, bpc>>
zomatoVars == <<zdoc, zp, zt, zr, line_items, sl, net_value, total_value,
                tax_value, zpc, zret>>
amazonVars == <<adoc, aret, apc>>
validatorVars == <<field_map, vrec, vrec2, vpc>>
flipkartVars == <<fdoc, fitems, fpc>>
blinkitVars == <<ktables, kdata, khdr, kitems, kret, kpc>>
batchVars == <<pdf_files, di, ppc, ptext, pbrand, extractor,
               header_dict, items_df, out_path, outputs, workbooks, results>>
instamartVars == <<idoc, iret, ipc>>
extractVars == <<evendor, edoc, erules, ehdr, eitems, eret, ecalls, epc>>
handlesVars == <<hdocs, hn, hs, hopen, hout, hpc>>
clusterVars == <<cvariant, cdoc, cp, blocks, cret, cpc>>
addressVars == <<left_lines, right_lines, capture, customer_addr_lines,
                seller_addr_lines, customer_address, mi, mdata, mpc>>
vars == <<brandVars, zomatoVars, amazonVars, validatorVars, flipkartVars,
          blinkitVars, batchVars, instamartVars, extractVars, handlesVars,
          clusterVars, addressVars>>

\* what the operations of one component leave alone
notBrand == <<zomatoVars, amazonVars, validatorVars, flipkartVars,
              blinkitVars, batchVars, instamartVars, extractVars,
              handlesVars, clusterVars, addressVars>>
notZomato == <<brandVars, amazonVars, validatorVars, flipkartVars,
               blinkitVars, batchVars, instamartVars, extractVars,
               handlesVars, clusterVars, addressVars>>
notAmazon == <<brandVars, zomatoVars, validatorVars, flipkartVars,
               blinkitVars, batchVars, instamartVars, extractVars,
               handlesVars, clusterVars, addressVars>>
notValidator == <<brandVars, zomatoVars, amazonVars, flipkartVars,
                  blinkitVars, batchVars, instamartVars, extractVars,
                  handlesVars, clusterVars, addressVars>>
notFlipkart == <<brandVars, zomatoVars, amazonVars, validatorVars,
                 blinkitVars, batchVars, instamartVars, extractVars,
                 handlesVars, clusterVars, addressVars>>
notBlinkit == <<brandVars, zomatoVars, amazonVars, validatorVars,
                flipkartVars, batchVars, instamartVars, extractVars,
                handlesVars, clusterVars, addressVars>>
notBatch == <<brandVars, zomatoVars, amazonVars, validatorVars,
              flipkartVars, blinkitVars, instamartVars, extractVars,
              handlesVars, clusterVars, addressVars>>
notInstamart == <<brandVars, zomatoVars, amazonVars, validatorVars,
                  flipkartVars, blinkitVars, batchVars, extractVars,
                  handlesVars, clusterVars, addressVars>>
notExtract == <<brandVars, zomatoVars, amazonVars, validatorVars,
                flipkartVars, blinkitVars, batchVars, instamartVars,
                handlesVars, clusterVars, addressVars>>
notHandles == <<brandVars, zomatoVars, amazonVars, validatorVars,
                flipkartVars, blinkitVars, batchVars, instamartVars,
                extractVars, clusterVars, addressVars>>
notCluster == <<brandVars, zomatoVars, amazonVars, validatorVars,
                flipkartVars, blinkitVars, batchVars, instamartVars,
                extractVars, handlesVars, addressVars>>
notAddress == <<brandVars, zomatoVars, amazonVars, validatorVars,
                flipkartVars, blinkitVars, batchVars, instamartVars,
                extractVars, handlesVars, clusterVars>>

(***************************************************************************)
(* Python strings                                                          *)
(***************************************************************************)
\* s[i] of Python (1-based here)
Ch(s, i) == SubSeq(s, i, i)

\* k in s
Contains(s, k) ==
    \E i \in 1..(Len(s) - Len(k) + 1) : SubSeq(s, i, i + Len(k) - 1) = k

\* s.startswith(k)
StartsWith(s, k) == Len(k) <= Len(s) /\ SubSeq(s, 1, Len(k)) = k

RECURSIVE JoinAll(_)
\* "".join(parts)
JoinAll(parts) ==
    IF parts = <<>> THEN "" ELSE Head(parts) \o JoinAll(Tail(parts))

\* Python None, where the other values are strings: the noncharacter
\* U+FFFF, which no text holds
None == "￿"

(***************************************************************************)
(* Python characters: the texts are over Latin-1 (U+0000 to U+00FF), and   *)
(* the classes are Python's on these characters                            *)
(***************************************************************************)
Digits == {"0", "1", "2", "3", "4", "5", "6", "7", "8", "9"}

DigitVal(c) ==
    CASE c = "0" -> 0 [] c = "1" -> 1 [] c = "2" -> 2 [] c = "3" -> 3
      [] c = "4" -> 4 [] c = "5" -> 5 [] c = "6" -> 6 [] c = "7" -> 7
      [] c = "8" -> 8 [] c = "9" -> 9

\* the information separators U+001C to U+001F
Separators == {"", "", "", ""}

\* the characters str.isspace holds of, which are those \s matches: tab,
\* newline, U+000B, form feed, carriage return, the separators, the blank,
\* U+0085 and U+00A0
SpaceChars ==
    {" ", "\t", "\n", "\r", "\f", "", "", " "} \cup Separators

\* str.isspace of one character
IsSpace(c) == c \in SpaceChars

\* U+0178, the capital of U+00FF: the string literals of the language
\* cannot hold this character, and the private-use character U+E1F8 is
\* written for it wherever a text holds it
CapitalYDiaeresis == ""

\* the characters str.lower changes, and what it makes of them
UpperChars == "ABCDEFGHIJKLMNOPQRSTUVWXYZÀÁÂÃÄÅÆÇÈÉÊËÌÍÎÏÐÑÒÓÔÕÖØÙÚÛÜÝÞ"
LowerChars == "abcdefghijklmnopqrstuvwxyzàáâãäåæçèéêëìíîïðñòóôõöøùúûüýþ"
LowerTable ==
    [c \in {Ch(UpperChars, i) : i \in 1..Len(UpperChars)} |->
        Ch(LowerChars, CHOOSE i \in 1..Len(UpperChars) : Ch(UpperChars, i) = c)]

\* one character of str.lower()
LowerCh(c) ==
    IF c \in DOMAIN LowerTable THEN LowerTable[c]
    ELSE IF c = CapitalYDiaeresis THEN "ÿ"
    ELSE c

RECURSIVE Lower(_)
\* s.lower(), by halves
Lower(s) ==
    IF s = "" THEN ""
    ELSE IF Len(s) = 1 THEN LowerCh(s)
    ELSE Lower(SubSeq(s, 1, Len(s) \div 2))
            \o Lower(SubSeq(s, Len(s) \div 2 + 1, Len(s)))

RECURSIVE RemoveCh(_, _)
\* s.replace(c, "") for a one-character c, by halves
RemoveCh(s, c) ==
    IF s = "" THEN ""
    ELSE IF Len(s) = 1 THEN (IF s = c THEN "" ELSE s)
    ELSE RemoveCh(SubSeq(s, 1, Len(s) \div 2), c)
            \o RemoveCh(SubSeq(s, Len(s) \div 2 + 1, Len(s)), c)

\* s without the characters of sp at its ends
StripOf(s, sp) ==
    IF \A i \in 1..Len(s) : Ch(s, i) \in sp THEN ""
    ELSE LET a == CHOOSE i \in 1..Len(s) :
                    Ch(s, i) \notin sp /\ \A j \in 1..(i - 1) : Ch(s, j) \in sp
             b == CHOOSE i \in 1..Len(s) :
                    /\ Ch(s, i) \notin sp
                    /\ \A j \in (i + 1)..Len(s) : Ch(s, j) \in sp
         IN  SubSeq(s, a, b)

RECURSIVE LStrip(_)
\* s.lstrip()
LStrip(s) == IF s # "" /\ IsSpace(Ch(s, 1)) THEN LStrip(Tail(s)) ELSE s

RECURSIVE RStrip(_)
\* s.rstrip()
RStrip(s) ==
    IF s # "" /\ IsSpace(Ch(s, Len(s)))
    THEN RStrip(SubSeq(s, 1, Len(s) - 1)) ELSE s

\* s.strip()
Strip(s) == LStrip(RStrip(s))

(***************************************************************************)
(* Natural numbers of any size: the limbs of 15 bits, the lowest first and *)
(* the highest not 0; <<>> is 0. The operations go by halves, so that they *)
(* nest no deeper than the logarithm of the length.                        *)
(***************************************************************************)
Limb == 2^15

RECURSIVE BOf(_)
\* the natural number n
BOf(n) == IF n = 0 THEN <<>> ELSE <<n % Limb>> \o BOf(n \div Limb)

\* a without its high limbs that are 0
BTrim(a) ==
    IF \A i \in 1..Len(a) : a[i] = 0 THEN <<>>
    ELSE SubSeq(a, 1, CHOOSE i \in 1..Len(a) :
                        a[i] # 0 /\ \A j \in (i + 1)..Len(a) : a[j] = 0)

\* a with high limbs of 0 up to the length n
BPad(a, n) == a \o [i \in 1..(n - Len(a)) |-> 0]

\* the limbs d, and the carry c as one limb more
BCarried(r) == IF r.c = 0 THEN r.d ELSE Append(r.d, r.c)

BCat(lo, hi) == [d |-> lo.d \o hi.d, c |-> hi.c]

\* the operations below work out the half a carry comes from (IF) before
\* they enter the half it goes to

RECURSIVE BAddH(_, _, _)
RECURSIVE BAddHi(_, _, _)
\* the limbs and the carry of a + b + c, a and b of one length
BAddH(a, b, c) ==
    IF a = <<>> THEN [d |-> <<>>, c |-> c]
    ELSE IF Len(a) = 1
    THEN [d |-> <<(a[1] + b[1] + c) % Limb>>, c |-> (a[1] + b[1] + c) \div Limb]
    ELSE BAddHi(BAddH(SubSeq(a, 1, Len(a) \div 2),
                      SubSeq(b, 1, Len(a) \div 2), c),
                SubSeq(a, Len(a) \div 2 + 1, Len(a)),
                SubSeq(b, Len(a) \div 2 + 1, Len(a)))

BAddHi(lo, a, b) ==
    IF lo.c = 0 THEN BCat(lo, BAddH(a, b, 0)) ELSE BCat(lo, BAddH(a, b, 1))

\* a + b
BAdd(a, b) ==
    IF Len(a) < Len(b) THEN BCarried(BAddH(BPad(a, Len(b)), b, 0))
    ELSE BCarried(BAddH(a, BPad(b, Len(a)), 0))

RECURSIVE BSubH(_, _, _)
RECURSIVE BSubHi(_, _, _)
\* the limbs and the borrow of a - b - c, a and b of one length
BSubH(a, b, c) ==
    IF a = <<>> THEN [d |-> <<>>, c |-> c]
    ELSE IF Len(a) = 1
    THEN [d |-> <<(a[1] - b[1] - c + Limb) % Limb>>,
          c |-> IF a[1] - b[1] - c < 0 THEN 1 ELSE 0]
    ELSE BSubHi(BSubH(SubSeq(a, 1, Len(a) \div 2),
                      SubSeq(b, 1, Len(a) \div 2), c),
                SubSeq(a, Len(a) \div 2 + 1, Len(a)),
                SubSeq(b, Len(a) \div 2 + 1, Len(a)))

BSubHi(lo, a, b) ==
    IF lo.c = 0 THEN BCat(lo, BSubH(a, b, 0)) ELSE BCat(lo, BSubH(a, b, 1))

\* a - b for a >= b
BSub(a, b) == BTrim(BSubH(a, BPad(b, Len(a)), 0).d)

\* a < b
BLess(a, b) ==
    \/ Len(a) < Len(b)
    \/ /\ Len(a) = Len(b)
       /\ \E i \in 1..Len(a) :
            a[i] < b[i] /\ \A j \in (i + 1)..Len(a) : a[j] = b[j]

RECURSIVE BMulH(_, _, _)
RECURSIVE BMulHi(_, _, _)
\* the limbs and the carry of a * k + c, k and c limbs
BMulH(a, k, c) ==
    IF a = <<>> THEN [d |-> <<>>, c |-> c]
    ELSE IF Len(a) = 1
    THEN [d |-> <<(a[1] * k + c) % Limb>>, c |-> (a[1] * k + c) \div Limb]
    ELSE BMulHi(BMulH(SubSeq(a, 1, Len(a) \div 2), k, c),
                SubSeq(a, Len(a) \div 2 + 1, Len(a)), k)

BMulHi(lo, a, k) ==
    IF lo.c = 0 THEN BCat(lo, BMulH(a, k, 0)) ELSE BCat(lo, BMulH(a, k, lo.c))

\* a * k + c, k >= 1 and c limbs
BMulC(a, k, c) == BCarried(BMulH(a, k, c))

RECURSIVE BDivH(_, _, _)
RECURSIVE BDivLo(_, _, _)
\* the quotient (high limbs of 0 kept) and the remainder of
\* r * Limb^Len(a) + a by the limb k, r < k
BDivH(a, k, r) ==
    IF a = <<>> THEN [q |-> <<>>, r |-> r]
    ELSE IF Len(a) = 1
    THEN [q |-> <<(r * Limb + a[1]) \div k>>, r |-> (r * Limb + a[1]) % k]
    ELSE BDivLo(BDivH(SubSeq(a, Len(a) \div 2 + 1, Len(a)), k, r),
                SubSeq(a, 1, Len(a) \div 2), k)

BDivCat(lo, hi) == [q |-> lo.q \o hi.q, r |-> lo.r]

BDivLo(hi, a, k) ==
    IF hi.r = 0 THEN BDivCat(BDivH(a, k, 0), hi)
    ELSE BDivCat(BDivH(a, k, hi.r), hi)

BDivTrim(d) == [q |-> BTrim(d.q), r |-> d.r]

\* the quotient and the remainder of a by the limb k
BDiv(a, k) == BDivTrim(BDivH(a, k, 0))

\* a * 2^n
BShl(a, n) ==
    IF a = <<>> THEN <<>>
    ELSE BMulC([i \in 1..(n \div 15) |-> 0] \o a, 2^(n % 15), 0)

\* how many bits a has
BBitLen(a) ==
    IF a = <<>> THEN 0
    ELSE (Len(a) - 1) * 15
            + (CHOOSE n \in 1..15 : 2^(n - 1) <= a[Len(a)] /\ a[Len(a)] < 2^n)

BOdd(a) == a # <<>> /\ a[1] % 2 = 1

BShrOf(d, low) ==
    [q |-> d.q, sticky |-> d.r # 0 \/ \E i \in DOMAIN low : low[i] # 0]

\* a \div 2^n, and whether a bit that was dropped is 1
BShr(a, n) ==
    IF n \div 15 >= Len(a)
    THEN [q |-> <<>>, sticky |-> a # <<>>]
    ELSE BShrOf(BDiv(SubSeq(a, n \div 15 + 1, Len(a)), 2^(n % 15)),
                SubSeq(a, 1, n \div 15))

BRoundUp(q, half, sticky) ==
    IF half /\ (sticky \/ BOdd(q)) THEN BAdd(q, <<1>>) ELSE q

BRoundOf(h, sticky) ==
    BRoundUp(BShr(h.q, 1).q, BOdd(h.q), h.sticky \/ sticky)

\* a / 2^n for n >= 1, rounded to the nearest and on a tie to the even;
\* sticky: the number is a little more than a
BRound(a, n, sticky) == BRoundOf(BShr(a, n - 1), sticky)

RECURSIVE BTimes5(_, _)
RECURSIVE BTimes5Of(_, _)
\* a * 5^k
BTimes5(a, k) ==
    IF k <= 6 THEN BMulC(a, 5^k, 0)
    ELSE BTimes5Of(BTimes5(a, k \div 2), k - k \div 2)

BTimes5Of(b, k) == IF b = <<>> THEN <<>> ELSE BTimes5(b, k)

RECURSIVE BOver5(_, _, _)
RECURSIVE BOver5Of(_, _)
\* a \div 5^k, and whether a division left a remainder
BOver5Step(d, sticky) == [q |-> d.q, sticky |-> sticky \/ d.r # 0]

BOver5(a, k, sticky) ==
    IF k <= 6 THEN BOver5Step(BDiv(a, 5^k), sticky)
    ELSE BOver5Of(BOver5(a, k \div 2, sticky), k - k \div 2)

BOver5Of(d, k) ==
    IF d.sticky THEN BOver5(d.q, k, TRUE) ELSE BOver5(d.q, k, FALSE)

(***************************************************************************)
(* Python floats: IEEE 754 doubles, 53 bits, the last bit of a value worth *)
(* 2^-1074 to 2^971                                                        *)
(***************************************************************************)
\* a finite float: (-1)^s * m * 2^e, m a natural number that is odd, or 0
\* with e = 0
Dbl(s, m, e) == [k |-> "num", s |-> s, m |-> m, e |-> e]

\* 0.0 and -0.0
FZero(s) == Dbl(s, <<>>, 0)

\* inf and -inf
FInfS(s) == [k |-> "inf", s |-> s, m |-> <<>>, e |-> 0]

FInf == FInfS(0)

FNan == [k |-> "nan", s |-> 0, m |-> <<>>, e |-> 0]

\* how many limbs of 0 m # 0 starts with, and how many bits of 0 the limb l
LowZeroLimbs(m) ==
    CHOOSE z \in 0..(Len(m) - 1) : m[z + 1] # 0 /\ \A i \in 1..z : m[i] = 0

LowZeroBits(l) == CHOOSE t \in 0..14 : l % 2^t = 0 /\ l % 2^(t + 1) # 0

FOddAt(s, m, e, z) ==
    Dbl(s, BDiv(SubSeq(m, z + 1, Len(m)), 2^LowZeroBits(m[z + 1])).q,
        e + 15 * z + LowZeroBits(m[z + 1]))

\* (-1)^s * m * 2^e written with an odd m
FOdd(s, m, e) ==
    IF m = <<>> THEN FZero(s) ELSE FOddAt(s, m, e, LowZeroLimbs(m))

\* m * 2^e is a double, or is past the largest one
ToDoubleOf(s, m, e) == IF BBitLen(m) + e > 1024 THEN FInfS(s) ELSE FOdd(s, m, e)

\* last: the exponent of the last bit the double keeps
ToDoubleAt(s, n, e, sticky, last) ==
    IF last <= e THEN ToDoubleOf(s, n, e)
    ELSE ToDoubleOf(s, BRound(n, last - e, sticky), last)

\* the double nearest to (-1)^s * n * 2^e, on a tie the even one; sticky:
\* the number is a little more than n
ToDouble(s, n, e, sticky) ==
    IF n = <<>> THEN FZero(s)
    ELSE ToDoubleAt(s, n, e, sticky,
                    IF BBitLen(n) + e - 53 > 0 - 1074
                    THEN BBitLen(n) + e - 53 ELSE 0 - 1074)

FromQuot(s, d, sh) == ToDouble(s, d.q, 0 - sh, d.sticky)

\* the double nearest to (-1)^s * d * 10^x: what float() makes of a decimal
FromDec(s, d, x) ==
    IF d = <<>> THEN FZero(s)
    ELSE IF x >= 0 /\ BBitLen(d) + 3 * x > 1030 THEN FInfS(s)
    ELSE IF x < 0 /\ BBitLen(d) + 3 * x < 0 - 1080 THEN FZero(s)
    ELSE IF x >= 0 THEN ToDouble(s, BTimes5(d, x), x, FALSE)
    ELSE FromQuot(s, BOver5(BShl(d, 56 - 3 * x), 0 - x, FALSE), 56 - 4 * x)

\* the float of the integer n times 10^x
Dec(n, x) ==
    IF n < 0 THEN FromDec(1, BOf(0 - n), x) ELSE FromDec(0, BOf(n), x)

\* the float of n / 100 as a literal writes it: Cents(1250) is 12.5
Cents(n) == Dec(n, 0 - 2)

\* -a
FNeg(a) == IF a.k = "nan" THEN a ELSE [a EXCEPT !.s = 1 - a.s]

FAddOf(sa, na, sb, nb, e) ==
    IF sa = sb THEN ToDouble(sa, BAdd(na, nb), e, FALSE)
    ELSE IF na = nb THEN FZero(0)
    ELSE IF BLess(na, nb) THEN ToDouble(sb, BSub(nb, na), e, FALSE)
    ELSE ToDouble(sa, BSub(na, nb), e, FALSE)

FAddAt(a, b, e) ==
    FAddOf(a.s, BShl(a.m, a.e - e), b.s, BShl(b.m, b.e - e), e)

\* a + b: the exact sum, rounded to a double
FAdd(a, b) ==
    IF a.k = "nan" \/ b.k = "nan" THEN FNan
    ELSE IF a.k = "inf" THEN (IF b.k = "inf" /\ a.s # b.s THEN FNan ELSE a)
    ELSE IF b.k = "inf" THEN b
    ELSE IF a.m = <<>> /\ b.m = <<>>
    THEN FZero(IF a.s = 1 /\ b.s = 1 THEN 1 ELSE 0)
    ELSE IF a.m = <<>> THEN b
    ELSE IF b.m = <<>> THEN a
    ELSE FAddAt(a, b, IF a.e < b.e THEN a.e ELSE b.e)

\* a - b
FSub(a, b) == FAdd(a, FNeg(b))

\* bool(a)
FTruthy(a) == ~(a.k = "num" /\ a.m = <<>>)

\* round(a, 2): the hundredth nearest to the value of a, on a tie the even
\* one, and the double nearest to that
Round2(a) ==
    IF a.k # "num" \/ a.m = <<>> \/ a.e >= 0 THEN a
    ELSE FromDec(a.s, BRound(BMulC(a.m, 100, 0), 0 - a.e, FALSE), 0 - 2)

\* the characters of s are all digits
AllDigits(s) == \A i \in 1..Len(s) : Ch(s, i) \in Digits

RECURSIVE DigitsVal(_)
\* the value of a run of digits
DigitsVal(s) ==
    IF s = "" THEN 0
    ELSE DigitsVal(SubSeq(s, 1, Len(s) - 1)) * 10 + DigitVal(Ch(s, Len(s)))

RECURSIVE BOfDigits(_)
\* the value of a run of digits of any length, by halves
BOfDigits(s) ==
    IF Len(s) <= 4 THEN BOf(DigitsVal(s))
    ELSE BAdd(BShl(BTimes5(BOfDigits(SubSeq(s, 1, Len(s) \div 2)),
                           Len(s) - Len(s) \div 2),
                   Len(s) - Len(s) \div 2),
              BOfDigits(SubSeq(s, Len(s) \div 2 + 1, Len(s))))

\* where the first "." of s is, Len(s) + 1 when it has none
DotAt(s) ==
    IF \E i \in 1..Len(s) : Ch(s, i) = "."
    THEN CHOOSE i \in 1..Len(s) :
            Ch(s, i) = "." /\ \A j \in 1..(i - 1) : Ch(s, j) # "."
    ELSE Len(s) + 1

\* where the first "e" or "E" of s is, Len(s) + 1 when it has none
ExpAt(s) ==
    IF \E i \in 1..Len(s) : Ch(s, i) \in {"e", "E"}
    THEN CHOOSE i \in 1..Len(s) :
            /\ Ch(s, i) \in {"e", "E"}
            /\ \A j \in 1..(i - 1) : Ch(s, j) \notin {"e", "E"}
    ELSE Len(s) + 1

\* digits, with single underscores between them
DigitGroup(s) ==
    /\ s # "" /\ Ch(s, 1) \in Digits /\ Ch(s, Len(s)) \in Digits
    /\ \A i \in 1..Len(s) : Ch(s, i) \in Digits \cup {"_"}
    /\ \A i \in 1..(Len(s) - 1) : ~(Ch(s, i) = "_" /\ Ch(s, i + 1) = "_")

FloatPartsOf(mant, ex, hasExp) ==
    [ip |-> SubSeq(mant, 1, DotAt(mant) - 1),
     fp |-> SubSeq(mant, DotAt(mant) + 1, Len(mant)),
     hasExp |-> hasExp,
     expNeg |-> ex # "" /\ Ch(ex, 1) = "-",
     ex |-> IF ex # "" /\ Ch(ex, 1) \in {"+", "-"} THEN Tail(ex) ELSE ex]

\* the parts of an unsigned float literal: the digits before and after the
\* point, and the exponent with its sign
FloatParts(s) ==
    FloatPartsOf(SubSeq(s, 1, ExpAt(s) - 1), SubSeq(s, ExpAt(s) + 1, Len(s)),
                 ExpAt(s) <= Len(s))

IsDecimalOf(f) ==
    /\ f.ip = "" \/ DigitGroup(f.ip)
    /\ f.fp = "" \/ DigitGroup(f.fp)
    /\ Len(f.ip) + Len(f.fp) >= 1
    /\ f.hasExp => DigitGroup(f.ex)

\* float(s) accepts the unsigned s: inf, infinity or nan in any case, or
\* digits with at most one ".", a digit at least, and an optional exponent
IsDecimal(s) ==
    \/ Lower(s) \in {"inf", "infinity", "nan"}
    \/ IsDecimalOf(FloatParts(s))

\* a run of digits without its leading zeros
ZeroStrip(s) ==
    IF \A i \in 1..Len(s) : Ch(s, i) = "0" THEN ""
    ELSE SubSeq(s, CHOOSE i \in 1..Len(s) :
                    Ch(s, i) # "0" /\ \A j \in 1..(i - 1) : Ch(s, j) = "0",
                Len(s))

\* the exponent a run of digits writes; past seven digits the value is no
\* longer finite or is 0 whatever the digits are
ExpOf(ds) == IF Len(ds) > 7 THEN 10^7 ELSE DigitsVal(ds)

DecimalOf(f) ==
    FromDec(0, BOfDigits(RemoveCh(f.ip \o f.fp, "_")),
            (IF ~f.hasExp THEN 0
             ELSE IF f.expNeg THEN 0 - ExpOf(ZeroStrip(RemoveCh(f.ex, "_")))
             ELSE ExpOf(ZeroStrip(RemoveCh(f.ex, "_"))))
                - Len(RemoveCh(f.fp, "_")))

\* the value of such an s
DecimalVal(s) ==
    IF Lower(s) \in {"inf", "infinity"} THEN FInf
    ELSE IF Lower(s) = "nan" THEN FNan
    ELSE DecimalOf(FloatParts(s))

PyFloatOf(neg, body) ==
    IF IsDecimal(body)
    THEN [ok |-> TRUE,
          v |-> IF neg THEN FNeg(DecimalVal(body)) ELSE DecimalVal(body)]
    ELSE [ok |-> FALSE, v |-> FZero(0)]

PyFloatSigned(t) ==
    IF t # "" /\ Ch(t, 1) \in {"+", "-"}
    THEN PyFloatOf(Ch(t, 1) = "-", Tail(t))
    ELSE PyFloatOf(FALSE, t)

\* float(s) of a str s: [ok |-> FALSE] is ValueError; the spaces at the ends
\* of s are passed over, the separators excepted
PyFloat(s) == PyFloatSigned(StripOf(s, SpaceChars \ Separators))

\* a table cell is a str or None; bool(cell)
CellTruthy(c) == c # None /\ c # ""

\* str(cell)
Str(c) == IF c = None THEN "None" ELSE c

\* a row of a DataFrame at a position: a row shorter than the frame is wide
\* holds None there
Cell(row, i) == IF i \in 1..Len(row) THEN row[i] ELSE None

\* df.shape[1] of pd.DataFrame(table): the widest row of the table
NumCols(table) ==
    IF table = <<>> THEN 0
    ELSE CHOOSE n \in {Len(table[i]) : i \in 1..Len(table)} :
            \A i \in 1..Len(table) : Len(table[i]) <= n

\* pd.DataFrame(table): every row as wide as the widest
DataFrame(table) ==
    [r \in 1..Len(table) |-> [i \in 1..NumCols(table) |-> Cell(table[r], i)]]

\* df.dropna(how="all"): rows of None alone are dropped
DropNaRows(df) ==
    SelectSeq(df, LAMBDA row : \E i \in 1..Len(row) : row[i] # None)

RECURSIVE JoinSep(_, _)
\* sep.join(parts)
JoinSep(parts, sep) ==
    IF parts = <<>> THEN ""
    ELSE IF Len(parts) = 1 THEN parts[1]
    ELSE parts[1] \o sep \o JoinSep(Tail(parts), sep)

(***************************************************************************)
(* Brand detector (main.py)                                                *)
(***************************************************************************)
\* how many fragments a document text is made of
MaxFrags == 3

\* the fragments: the keywords of the rules, their parts, and other text
BrandFrags ==
    { "blinkit", "zomato", " hyperpure", "flipkart", "shopler estore",
      "amazon", "instamart", "b2c", "swiggy", "invoice", "ethernal",
      "restaurant", " ", "tax" }

BrandTexts ==
    UNION { { JoinAll(f) : f \in [1..n -> BrandFrags] } : n \in 0..MaxFrags }

\* the rules in another order: generic Zomato tried before Blinkit
detect_brand_zomato_first(text_lower) ==
    IF (Contains(text_lower, "zomato") \/ Contains(text_lower, "ethernal"))
         /\ Contains(text_lower, "restaurant")
    THEN "zomato"
    ELSE IF Contains(text_lower, "blinkit")
              \/ Contains(text_lower, "zomato hyperpure")
    THEN "blinkit"
    ELSE IF Contains(text_lower, "flipkart")
              \/ Contains(text_lower, "shopler estore")
    THEN "flipkart"
    ELSE IF Contains(text_lower, "amazon")
    THEN "amazon"
    ELSE IF Contains(text_lower, "instamart") \/ Contains(text_lower, "b2c")
              \/ (Contains(text_lower, "swiggy")
                    /\ Contains(text_lower, "invoice"))
    THEN "instamart"
    ELSE None

detect_brand(text_lower) ==
    IF Contains(text_lower, "blinkit")
         \/ Contains(text_lower, "zomato hyperpure")
    THEN "blinkit"
    ELSE IF Contains(text_lower, "flipkart")
              \/ Contains(text_lower, "shopler estore")
    THEN "flipkart"
    ELSE IF Contains(text_lower, "amazon")
              \/ Contains(text_lower, "amazon seller")
    THEN "amazon"
    ELSE IF Contains(text_lower, "instamart") \/ Contains(text_lower, "b2c")
              \/ (Contains(text_lower, "swiggy")
                    /\ Contains(text_lower, "invoice"))
    THEN "instamart"
    ELSE IF (Contains(text_lower, "zomato")
               \/ Contains(text_lower, "ethernal"))
              /\ Contains(text_lower, "restaurant")
    THEN "zomato"
    ELSE None

BrandIdle == text = "" /\ brand = "unset" /\ bpc = "idle"

BrandInit ==
    /\ text \in BrandTexts
    /\ brand = "unset"
    /\ bpc = "start"

DetectBrand ==
    /\ bpc = "start"
    /\ brand' = detect_brand(text)
    /\ bpc' = "detected"
    /\ UNCHANGED <<text, notBrand>>

\* C1: detect_brand is an ordered decision list, first matching rule wins:
\* blinkit, then flipkart, then amazon, then instamart, then zomato, else
\* None; a text with "zomato hyperpure" and "restaurant" is blinkit.
BrandFirstMatchWins ==
    bpc = "detected" =>
        LET has(k) == Contains(text, k)
            r1 == has("blinkit") \/ has("zomato hyperpure")
            r2 == has("flipkart") \/ has("shopler estore")
            r3 == has("amazon")
            r4 == has("instamart") \/ has("b2c")
                    \/ (has("swiggy") /\ has("invoice"))
            r5 == (has("zomato") \/ has("ethernal")) /\ has("restaurant")
        IN  /\ r1 => brand = "blinkit"
            /\ (~r1 /\ r2) => brand = "flipkart"
            /\ (~r1 /\ ~r2 /\ r3) => brand = "amazon"
            /\ (~r1 /\ ~r2 /\ ~r3 /\ r4) => brand = "instamart"
            /\ (~r1 /\ ~r2 /\ ~r3 /\ ~r4 /\ r5) => brand = "zomato"
            /\ (~r1 /\ ~r2 /\ ~r3 /\ ~r4 /\ ~r5) => brand = None
            /\ (has("zomato hyperpure") /\ has("restaurant"))
                 => brand = "blinkit"

\* a Blinkit invoice that also names a restaurant has been classified
BrandHyperpureRestaurantSeen ==
    /\ bpc = "detected"
    /\ Contains(text, "zomato hyperpure")
    /\ Contains(text, "restaurant")
    /\ ~Contains(text, "blinkit")
    /\ brand = "blinkit"

(***************************************************************************)
(* Zomato (extractors_zomato.py)                                           *)
(***************************************************************************)
\* a pandas Series where the other values are strings: the noncharacter
\* U+FFFE, and str(series) after it
IsSeries(c) == c # "" /\ Ch(c, 1) = "￾"

\* str(val) of a value read from a row
StrVal(c) == IF IsSeries(c) THEN Tail(c) ELSE Str(c)

RECURSIVE Spaces(_)
Spaces(n) == IF n <= 0 THEN "" ELSE " " \o Spaces(n - 1)

RECURSIVE Escaped(_)
\* pprint_thing(s, escape_chars=("\t", "\r", "\n")), by halves
Escaped(s) ==
    IF s = "" THEN ""
    ELSE IF Len(s) = 1
    THEN (CASE s = "\t" -> "\\t" [] s = "\r" -> "\\r" [] s = "\n" -> "\\n"
            [] OTHER -> s)
    ELSE Escaped(SubSeq(s, 1, Len(s) \div 2))
            \o Escaped(SubSeq(s, Len(s) \div 2 + 1, Len(s)))

\* the greatest of the lengths of the strings of a sequence
MaxLen(strs) ==
    CHOOSE n \in {Len(strs[i]) : i \in 1..Len(strs)} :
        \A i \in 1..Len(strs) : Len(strs[i]) <= n

\* s.center(w) of Python: the odd blank goes to the left when w is odd
Center(s, w) ==
    IF Len(s) >= w THEN s
    ELSE Spaces((w - Len(s)) \div 2
                   + (IF (w - Len(s)) % 2 = 1 /\ w % 2 = 1 THEN 1 ELSE 0))
           \o s
           \o Spaces((w - Len(s))
                        - ((w - Len(s)) \div 2
                             + (IF (w - Len(s)) % 2 = 1 /\ w % 2 = 1
                                THEN 1 ELSE 0)))

\* the positions of a Series of n values that its text shows: all of them,
\* or the first five and the last five when there are more than
\* display.max_rows (60)
SeriesShown(n) ==
    IF n > 60 THEN [i \in 1..10 |-> IF i <= 5 THEN i ELSE n - 10 + i]
    ELSE [i \in 1..n |-> i]

\* the values as the text shows them, w wide: a formatted value longer than
\* w is cut to its first w - 3 characters and "...", and all are justified
\* to the right
SeriesFixed(fv, w) ==
    [i \in 1..Len(fv) |->
        IF Len(fv[i]) > w THEN SubSeq(fv[i], 1, w - 3) \o "..."
        ELSE Spaces(w - Len(fv[i])) \o fv[i]]

\* the lines of the text: each label, filled to the longest and three
\* blanks more, then the value filled to the longest
SeriesLines(ls, vs) ==
    JoinSep([i \in 1..Len(ls) |->
                ls[i] \o Spaces(MaxLen(ls) + 3 - Len(ls[i])) \o vs[i]
                   \o Spaces(MaxLen(vs) - Len(vs[i]))], "\n")

\* a row of dots put after the first five of the values shown, centred on
\* their width, under an empty label
SeriesDotted(ls, vs) ==
    SeriesLines(SubSeq(ls, 1, 5) \o <<"">> \o SubSeq(ls, 6, Len(ls)),
                SubSeq(vs, 1, 5)
                   \o << Center(IF Len(vs[5]) > 3 THEN "..." ELSE "..",
                                Len(vs[5])) >>
                   \o SubSeq(vs, 6, Len(vs)))

SeriesBody(ls, fv, cutRows) ==
    IF cutRows
    THEN SeriesDotted(ls, SeriesFixed(fv, IF MaxLen(fv) > 50 THEN 50
                                          ELSE MaxLen(fv)))
    ELSE SeriesLines(ls, SeriesFixed(fv, IF MaxLen(fv) > 50 THEN 50
                                         ELSE MaxLen(fv)))

\* str(series) of a Series of dtype object: the labels to the left, the
\* values to the right, then the name. Each value is formatted with one
\* space before it, and a formatted value longer than display.max_colwidth
\* (50) is cut; of more than 60 values the first and the last five are
\* shown, and the length of the Series is given after the name
SeriesStr(labels, values, name) ==
    SeriesBody([i \in 1..Len(SeriesShown(Len(values))) |->
                   Escaped(labels[SeriesShown(Len(values))[i]])],
               [i \in 1..Len(SeriesShown(Len(values))) |->
                   " " \o Escaped(Str(values[SeriesShown(Len(values))[i]]))],
               Len(values) > 60)
       \o "\nName: " \o ToString(name)
       \o (IF Len(values) > 60 THEN ", Length: " \o ToString(Len(values))
           ELSE "")
       \o ", dtype: object"

\* try: return float(val) / except: return 0.0
OrZero(f) == IF f.ok THEN f.v ELSE Cents(0)

\* safe_float of extractors_zomato.py
safe_float_zomato(val) ==
    IF val = None THEN Cents(0)
    ELSE OrZero(PyFloat(Strip(RemoveCh(RemoveCh(StrVal(val), "%"), ","))))

\* how many data rows the particulars table has, and how many pages without
\* it come first
MaxZRows == 3
MaxZSkip == 1

ZHeader ==
    << "Particulars", "Gross value", "Discount", "Net value", "CGST (Rate)",
       "CGST (INR)", "SGST (Rate)", "SGST (INR)", "Total" >>

\* a header without a discount column
ZHeaderNoDiscount ==
    << "Particulars", "Gross value", "Net value", "CGST (Rate)",
       "CGST (INR)", "SGST (Rate)", "SGST (INR)", "Total" >>

\* a header with a net column and no total column
ZHeaderNoTotal ==
    << "Particulars", "Gross", "Discount", "Net", "CGST Rate", "CGST INR",
       "SGST Rate", "SGST INR" >>

\* a header with two columns of one name
ZHeaderTwoTotals ==
    << "Particulars", "Gross value", "Discount", "Net value", "CGST (Rate)",
       "CGST (INR)", "SGST (Rate)", "SGST (INR)", "Total", "Total" >>

ZRowKinds ==
    { << "Paneer Tikka", "200", "20", "180", "2.5%", "4.50", "2.5%", "4.50",
         "189" >>,
      << "Dal Makhani", "1,200.50", None, "abc", "2.5%", "", "2.5%", "30",
         "1,230.50" >>,
      << "Total Value", "", "", "180", "", "", "", "", "189.126" >>,
      << "Item(s) Total", "200", "20", "180", "", "", "", "", "" >>,
      << " ", None, None, None, None, None, None, None, None >>,
      << None, None, None, None, None, None, None, None, None >> }

ZTables ==
    UNION { { <<h>> \o rows : rows \in [1..n -> ZRowKinds] } :
            n \in 0..MaxZRows,
            h \in {ZHeader, ZHeaderNoDiscount, ZHeaderNoTotal,
                   ZHeaderTwoTotals} }

\* tables the walk passes over: too narrow, or no particulars column
ZNarrow == << <<"Tax", "Rate", "Amount">>, <<"CGST", "2.5%", "4.50">> >>
ZOther == << <<"Description", "HSN", "Qty", "Rate", "Amount", "Total">> >>
ZSkipPages == { <<>>, <<ZNarrow>>, <<ZNarrow, ZOther>> }

\* tables whose rows are of different widths: one without a row that holds
\* a value, one whose header row is the short one
ZBlank == << <<None, None, None, None, None, None>> >>
ZRagged ==
    << <<"Particulars", "Net value", "Total">>,
       <<None, None, None, None, None, None>>,
       <<"Paneer Tikka", "180", "189">> >>

ZDocs ==
    LET pre == UNION { [1..n -> ZSkipPages] : n \in 0..MaxZSkip }
    IN  pre \cup { p \o << <<t>> >> :
                     p \in pre, t \in ZTables \cup {ZBlank, ZRagged} }

\* df of line 65 and what the code takes from it: the header of line 70
\* (the frame has a row), the rows of line 76
ZDf(table) == DropNaRows(DataFrame(table))
ZHeaderLower(table) == [i \in 1..NumCols(table) |->
                           Lower(Str(ZDf(table)[1][i]))]
ZData(table) == Tail(ZDf(table))

\* row[c] of the data row at position r, c the name of column i: the cell,
\* or the Series of the cells of the columns of that name when they are
\* several
ZLookup(header, row, i, r) ==
    LET cols == {j \in 1..Len(header) : header[j] = header[i]}
        sel == SelectSeq([j \in 1..Len(header) |-> j],
                         LAMBDA j : j \in cols)
    IN  IF Cardinality(cols) = 1 THEN row[i]
        ELSE "￾" \o SeriesStr([k \in 1..Len(sel) |-> header[sel[k]]],
                                [k \in 1..Len(sel) |-> row[sel[k]]], r - 1)

\* find_col: the first column whose name has every key, 0 for None
find_col(header, keys) ==
    LET hit(i) == \A k \in keys : Contains(header[i], k)
    IN  IF \E i \in 1..Len(header) : hit(i)
        THEN CHOOSE i \in 1..Len(header) :
                hit(i) /\ \A j \in 1..(i - 1) : ~hit(j)
        ELSE 0

\* line 70: df.iloc[0] of a frame of six columns at least and no row
ZNoHeader(table) == NumCols(table) >= 6 /\ ZDf(table) = <<>>

\* a table the walk takes: six columns at least, a "particulars" header
ZQualifies(table) ==
    /\ NumCols(table) >= 6
    /\ ZDf(table) # <<>>
    /\ Contains(JoinSep(ZHeaderLower(table), " "), "particulars")

ZCurTable == zdoc[zp][zt]

\* what the function returns (exc is None), or the exception it raises
ZRet(exc, items, net, tax, total) ==
    [exc |-> exc, items |-> items, net |-> net, tax |-> tax, total |-> total]
ZNoRet == ZRet("pending", <<>>, Cents(0), Cents(0), Cents(0))
ZRaise(exc) == ZRet(exc, <<>>, Cents(0), Cents(0), Cents(0))

ZomatoIdle ==
    /\ zdoc = <<>> /\ zp = 0 /\ zt = 0 /\ zr = 0 /\ line_items = <<>>
    /\ sl = 0 /\ net_value = Cents(0) /\ total_value = Cents(0)
    /\ tax_value = Cents(0)
    /\ zpc = "idle" /\ zret = ZNoRet

ZomatoInit ==
    /\ zdoc \in ZDocs
    /\ zp = 1 /\ zt = 0 /\ zr = 0
    /\ line_items = <<>> /\ sl = 0
    /\ net_value = Cents(0) /\ total_value = Cents(0) /\ tax_value = Cents(0)
    /\ zpc = "page" /\ zret = ZNoRet

\* line 59-62: a page without tables is passed over
ZomatoSkipPage ==
    /\ zpc = "page" /\ zp <= Len(zdoc) /\ zdoc[zp] = <<>>
    /\ zp' = zp + 1
    /\ UNCHANGED <<zdoc, zt, zr, line_items, sl, net_value, total_value,
                   tax_value, zpc, zret, notZomato>>

\* line 64: the tables of a page are walked
ZomatoEnterPage ==
    /\ zpc = "page" /\ zp <= Len(zdoc) /\ zdoc[zp] # <<>>
    /\ zpc' = "table" /\ zt' = 1
    /\ UNCHANGED <<zdoc, zp, zr, line_items, sl, net_value, total_value,
                   tax_value, zret, notZomato>>

\* line 65-73: a table too narrow or without "particulars" is passed over
ZomatoSkipTable ==
    /\ zpc = "table" /\ zt <= Len(zdoc[zp])
    /\ ~ZQualifies(ZCurTable) /\ ~ZNoHeader(ZCurTable)
    /\ zt' = zt + 1
    /\ UNCHANGED <<zdoc, zp, zr, line_items, sl, net_value, total_value,
                   tax_value, zpc, zret, notZomato>>

\* the tables of the page are exhausted
ZomatoNextPage ==
    /\ zpc = "table" /\ zt > Len(zdoc[zp])
    /\ zp' = zp + 1 /\ zpc' = "page"
    /\ UNCHANGED <<zdoc, zt, zr, line_items, sl, net_value, total_value,
                   tax_value, zret, notZomato>>

\* line 70: the frame has six columns and no row, df.iloc[0] raises
ZomatoNoHeader ==
    /\ zpc = "table" /\ zt <= Len(zdoc[zp]) /\ ZNoHeader(ZCurTable)
    /\ zpc' = "done" /\ zret' = ZRaise("IndexError")
    /\ UNCHANGED <<zdoc, zp, zt, zr, line_items, sl, net_value, total_value,
                   tax_value, notZomato>>

\* line 75-94: the particulars table is found
ZomatoEnterTable ==
    /\ zpc = "table" /\ zt <= Len(zdoc[zp]) /\ ZQualifies(ZCurTable)
    /\ zpc' = "rows" /\ zr' = 1 /\ sl' = 1
    /\ UNCHANGED <<zdoc, zp, zt, line_items, net_value, total_value,
                   tax_value, zret, notZomato>>

\* the item of lines 108-124; FALSE where row[None] raises KeyError
ZItemOk(h) ==
    \A keys \in {{"gross"}, {"discount"}, {"net"}, {"cgst", "rate"},
                 {"cgst", "inr"}, {"sgst", "rate"}, {"sgst", "inr"},
                 {"total"}} : find_col(h, keys) # 0

\* the item of the data row at position r, the n-th item
ZItem(h, row, n, r) ==
    LET at(keys) == ZLookup(h, row, find_col(h, keys), r)
    IN  [ SlNo |-> n,
          Description |-> at({"particular"}),
          UnitPrice |-> safe_float_zomato(at({"gross"})),
          Discount |-> safe_float_zomato(at({"discount"})),
          Qty |-> 1,
          NetAmount |-> safe_float_zomato(at({"net"})),
          TaxRate |-> StrVal(at({"cgst", "rate"})) \o " + "
                        \o StrVal(at({"sgst", "rate"})),
          TaxType |-> "CGST+SGST",
          TaxAmount |-> FAdd(safe_float_zomato(at({"cgst", "inr"})),
                             safe_float_zomato(at({"sgst", "inr"}))),
          TotalAmount |-> safe_float_zomato(at({"total"})) ]

\* line 95-125: one row of the table. On a "total value" row line 99 binds
\* net_value before line 100 looks up the total column, so a KeyError of
\* line 100 leaves the new net_value behind
ZomatoRow ==
    /\ zpc = "rows" /\ zr <= Len(ZData(ZCurTable))
    /\ LET h == ZHeaderLower(ZCurTable)
           row == ZData(ZCurTable)[zr]
           at(keys) == ZLookup(h, row, find_col(h, keys), zr)
           part == Lower(StrVal(at({"particular"})))
       IN  IF Contains(part, "total value")
           THEN IF find_col(h, {"net"}) = 0
                THEN /\ zpc' = "done" /\ zret' = ZRaise("KeyError")
                     /\ UNCHANGED <<zr, line_items, sl, net_value,
                                    total_value, tax_value>>
                ELSE IF find_col(h, {"total"}) = 0
                THEN /\ net_value' = safe_float_zomato(at({"net"}))
                     /\ zpc' = "done" /\ zret' = ZRaise("KeyError")
                     /\ UNCHANGED <<zr, line_items, sl, total_value,
                                    tax_value>>
                ELSE /\ net_value' = safe_float_zomato(at({"net"}))
                     /\ total_value' = safe_float_zomato(at({"total"}))
                     /\ tax_value' = Round2(FSub(total_value', net_value'))
                     /\ zr' = zr + 1
                     /\ UNCHANGED <<line_items, sl, zpc, zret>>
           ELSE IF Contains(part, "item(s) total")
           THEN /\ zr' = zr + 1
                /\ UNCHANGED <<line_items, sl, net_value, total_value,
                               tax_value, zpc, zret>>
           ELSE IF Strip(part) # ""
           THEN IF ZItemOk(h)
                THEN /\ line_items' = Append(line_items, ZItem(h, row, sl, zr))
                     /\ sl' = sl + 1
                     /\ zr' = zr + 1
                     /\ UNCHANGED <<net_value, total_value, tax_value, zpc,
                                    zret>>
                ELSE /\ zpc' = "done" /\ zret' = ZRaise("KeyError")
                     /\ UNCHANGED <<zr, line_items, sl, net_value,
                                    total_value, tax_value>>
           ELSE /\ zr' = zr + 1
                /\ UNCHANGED <<line_items, sl, net_value, total_value,
                               tax_value, zpc, zret>>
    /\ UNCHANGED <<zdoc, zp, zt, notZomato>>

\* line 127: the rows are exhausted, the function returns
ZomatoReturn ==
    /\ zpc = "rows" /\ zr > Len(ZData(ZCurTable))
    /\ zpc' = "done"
    /\ zret' = ZRet(None, line_items, net_value, tax_value, total_value)
    /\ UNCHANGED <<zdoc, zp, zt, zr, line_items, sl, net_value, total_value,
                   tax_value, notZomato>>

\* line 129: no page has the table
ZomatoReturnEmpty ==
    /\ zpc = "page" /\ zp > Len(zdoc)
    /\ zpc' = "done"
    /\ zret' = ZRaise(None)
    /\ UNCHANGED <<zdoc, zp, zt, zr, line_items, sl, net_value, total_value,
                   tax_value, notZomato>>

ZomatoNext ==
    \/ ZomatoSkipPage \/ ZomatoEnterPage \/ ZomatoSkipTable
    \/ ZomatoNextPage \/ ZomatoNoHeader \/ ZomatoEnterTable \/ ZomatoRow
    \/ ZomatoReturn \/ ZomatoReturnEmpty

\* the particulars cells of the data rows above the first "total value" row
ZAboveTotals(table) ==
    LET h == ZHeaderLower(table)
        data == ZData(table)
        part(j) == ZLookup(h, data[j], find_col(h, {"particular"}), j)
        isTotals(j) == Contains(Lower(StrVal(part(j))), "total value")
    IN  { part(j) : j \in { i \in 1..Len(data) :
                              \A m \in 1..i : ~isTotals(m) } }

\* C2: row iteration halts at the "total value" row: no row physically
\* below it is ever added as a line item, so every line item comes from a
\* row above it.
ZomatoNoItemBelowTotals ==
    zpc \in {"rows", "done"} =>
        \A k \in 1..Len(line_items) :
            line_items[k].Description \in ZAboveTotals(ZCurTable)

(***************************************************************************)
(* Amazon totals (extractors_amazon.py)                                    *)
(***************************************************************************)
\* how many pages a document has
MaxAPages == 2

\* max(tables, key=len): the first of the tables with the most rows
ALargest(tables) ==
    LET i == CHOOSE i \in 1..Len(tables) :
                /\ \A j \in 1..Len(tables) : Len(tables[j]) <= Len(tables[i])
                /\ \A j \in 1..(i - 1) : Len(tables[j]) < Len(tables[i])
    IN  tables[i]

\* the table extract_totals_amazon reads on a page (line 21)
ATableOfPage(tables) == ALargest(tables)

\* len([c for c in row if c])
NonEmptyCount(row) == Cardinality({i \in 1..Len(row) : CellTruthy(row[i])})

\* max_cols of line 22 (the table has a row)
AMaxCols(table) ==
    CHOOSE n \in {NonEmptyCount(table[i]) : i \in 1..Len(table)} :
        \A i \in 1..Len(table) : NonEmptyCount(table[i]) <= n

\* the column test of line 33, with or for and
AIsTaxColOr(c) == Contains(c, "tax") \/ Contains(c, "amount")

\* the column tests of lines 33 and 35, on a lower-cased header cell
AIsTaxCol(c) == Contains(c, "tax") /\ Contains(c, "amount")
AIsTotalCol(c) == Contains(c, "total") /\ Contains(c, "amount")

\* the last index of the header the test holds of, 0 for None
ALastCol(header, test(_)) ==
    LET hit(i) == test(Lower(header[i]))
    IN  IF \E i \in 1..Len(header) : hit(i)
        THEN CHOOSE i \in 1..Len(header) :
                hit(i) /\ \A j \in (i + 1)..Len(header) : ~hit(j)
        ELSE 0

\* re.findall(r"[\d.]+", s)[0], "" when findall returns []
FirstNumRun(s) ==
    LET in(i) == Ch(s, i) \in Digits \cup {"."}
    IN  IF \E i \in 1..Len(s) : in(i)
        THEN LET a == CHOOSE i \in 1..Len(s) :
                        in(i) /\ \A j \in 1..(i - 1) : ~in(j)
                 b == CHOOSE i \in a..Len(s) :
                        /\ \A j \in a..i : in(j)
                        /\ (i = Len(s) \/ ~in(i + 1))
             IN  SubSeq(s, a, b)
        ELSE ""

\* the run of a cell that lines 43-44 convert
ANumRun(s) == FirstNumRun(s)

ARet(exc, tax, total) == [exc |-> exc, tax |-> tax, total |-> total]
ANoRet == ARet("pending", Cents(0), Cents(0))

\* any("total" in str(cell).lower() for cell in row)
AHasTotal(row, ncols) ==
    \E i \in 1..ncols : Contains(Lower(Str(Cell(row, i))), "total")

\* lines 41-48: the first data row with "total", converted
ARowResult(row, tax_col, total_col) ==
    LET tax_val == ANumRun(Str(Cell(row, tax_col)))
        amt_val == ANumRun(Str(Cell(row, total_col)))
    IN  IF (tax_val # "" /\ ~PyFloat(tax_val).ok)
            \/ (amt_val # "" /\ ~PyFloat(amt_val).ok)
        THEN ARet("ValueError", Cents(0), Cents(0))
        ELSE ARet(None,
                  IF tax_val # "" THEN PyFloat(tax_val).v ELSE Cents(0),
                  IF amt_val # "" THEN PyFloat(amt_val).v ELSE Cents(0))

\* lines 18-48 on one page: "next" when the loop goes on to the next page
\* (pdfplumber gives a table a row at least; the frame of a table with a
\* row of six cells has a row)
APage(tables) ==
    IF tables = <<>> THEN "next"
    ELSE LET table == ATableOfPage(tables)
             df == DropNaRows(DataFrame(table))
             n == NumCols(table)
             header == [i \in 1..n |-> Str(df[1][i])]
             data == Tail(df)
             tax_col == ALastCol(header, AIsTaxCol)
             total_col == ALastCol(header, AIsTotalCol)
             hits == {i \in 1..Len(data) : AHasTotal(data[i], n)}
         IN  IF AMaxCols(table) < 6 THEN "next"
             ELSE IF tax_col = 0 \/ total_col = 0 THEN "zero"
             ELSE IF hits = {} THEN "next"
             ELSE "row"

\* the row of the page lines 41-48 return from
APageRow(tables) ==
    LET df == DropNaRows(DataFrame(ATableOfPage(tables)))
        n == NumCols(ATableOfPage(tables))
        header == [i \in 1..n |-> Str(df[1][i])]
        data == Tail(df)
        first == CHOOSE i \in 1..Len(data) :
                    /\ AHasTotal(data[i], n)
                    /\ \A j \in 1..(i - 1) : ~AHasTotal(data[j], n)
    IN  ARowResult(data[first], ALastCol(header, AIsTaxCol),
                   ALastCol(header, AIsTotalCol))

RECURSIVE AScan(_, _)
\* the page loop of lines 17-50, from page p on
AScan(doc, p) ==
    IF p > Len(doc) THEN ARet(None, Cents(0), Cents(0))
    ELSE IF APage(doc[p]) = "next" THEN AScan(doc, p + 1)
    ELSE IF APage(doc[p]) = "zero" THEN ARet(None, Cents(0), Cents(0))
    ELSE APageRow(doc[p])

extract_totals_amazon(doc) == AScan(doc, 1)

\* the tables of the pages
AHeader9 ==
    << "Sl. No", "Description", "Unit Price", "Qty", "Net Amount",
       "Tax Rate", "Tax Type", "Tax Amount", "Total Amount" >>
AHeader6 ==
    << "Description", "HSN", "Unit Price", "Qty", "Tax Amount",
       "Total Amount" >>
AHeader4 == << "Description", "Qty", "Tax Amount", "Total Amount" >>
AHeaderNoTax ==
    << "Sl. No", "Description", "Unit Price", "Qty", "Net Amount",
       "Total Amount" >>

AItemRow9 ==
    << "1", "USB Cable", "100.00", "5", "500.00", "18%", "IGST", "90.00",
       "590.00" >>
ATotalRows9 ==
    { << "TOTAL:", None, None, None, None, None, None, "90.00", "590.00" >>,
      << "TOTAL:", None, None, None, None, None, None, "INR 90.00",
         "INR 1,590.00 (2 items)" >>,
      << "TOTAL:", None, None, None, None, None, None, "Rs.90.00",
         "590.00" >>,
      << "Grand Total", None, None, None, None, None, None, None, "" >> }

ATable9(total_row) == << AHeader9, AItemRow9, total_row >>
ATable9NoTotal == << AHeader9, AItemRow9 >>
ATable6 == << AHeader6, <<"Total", "", "", "5", "12.5", "112.5">> >>
ATable4 == << AHeader4, <<"Total", "5", "12.5", "112.5">> >>
ATableNoTax ==
    << AHeaderNoTax,
       <<"Total", "", "100.00", "5", "500.00", "590.00">> >>
ATableLong ==
    << <<"Tax", "Rate">>, <<"IGST", "18%">>, <<"CGST", "0%">>,
       <<"SGST", "0%">> >>
ATableShort == << <<"Amount in Words", "Five Hundred Ninety only">> >>

\* a table whose header row is shorter than its rows, and a total row in
\* other notations of a number
ATableRagged ==
    << <<"Tax Amount", "Total Amount">>,
       <<"1", "a", "b", "c", "d", "e">>,
       <<"1e3", "12.345 total">> >>

APages ==
    { <<>>, <<ATable4>>, <<ATable6>>, <<ATable9NoTotal>>, <<ATableNoTax>>,
      <<ATableLong, ATable6>>, <<ATableShort, ATable6>>,
      <<ATableShort, ATableNoTax>>, <<ATableRagged>> }
      \cup { <<ATable9(r)>> : r \in ATotalRows9 }

ADocs == UNION { [1..n -> APages] : n \in 0..MaxAPages }

AmazonIdle == adoc = <<>> /\ aret = ANoRet /\ apc = "idle"

AmazonInit == adoc \in ADocs /\ aret = ANoRet /\ apc = "start"

\* extract_totals_amazon(pdf_path)
AmazonTotals ==
    /\ apc = "start"
    /\ aret' = extract_totals_amazon(adoc)
    /\ apc' = "done"
    /\ UNCHANGED <<adoc, notAmazon>>

\* what the claims about extract_totals_amazon speak of
\* the header row of a table has a tax-amount and a total-amount column
CHeaderHasBoth(table) ==
    LET df == DropNaRows(table)
        cell(i) == IF df[1][i] = None THEN "" ELSE Lower(df[1][i])
    IN  /\ df # <<>>
        /\ \E i \in 1..Len(df[1]) :
              Contains(cell(i), "tax") /\ Contains(cell(i), "amount")
        /\ \E i \in 1..Len(df[1]) :
              Contains(cell(i), "total") /\ Contains(cell(i), "amount")

\* the data rows of a table that contain "total"
CTotalRows(table) ==
    LET df == DropNaRows(table)
    IN  { r \in 2..Len(df) :
            \E i \in 1..Len(df[r]) :
                df[r][i] # None /\ Contains(Lower(df[r][i]), "total") }

\* the numbers of row r: the first digit-and-dot run of the tax-amount cell
\* and of the total-amount cell, 0.0 for a cell without one, ValueError
\* for a run that is no numeral
CRowNumbers(table, r) ==
    LET df == DropNaRows(table)
        cell(i) == IF df[1][i] = None THEN "" ELSE Lower(df[1][i])
        tc == CHOOSE i \in 1..Len(df[1]) :
                /\ Contains(cell(i), "tax") /\ Contains(cell(i), "amount")
                /\ \A j \in (i + 1)..Len(df[1]) :
                     ~(Contains(cell(j), "tax") /\ Contains(cell(j), "amount"))
        ac == CHOOSE i \in 1..Len(df[1]) :
                /\ Contains(cell(i), "total") /\ Contains(cell(i), "amount")
                /\ \A j \in (i + 1)..Len(df[1]) :
                     ~(Contains(cell(j), "total")
                         /\ Contains(cell(j), "amount"))
        t == FirstNumRun(Str(Cell(df[r], tc)))
        a == FirstNumRun(Str(Cell(df[r], ac)))
    IN  IF (t # "" /\ ~IsDecimal(t)) \/ (a # "" /\ ~IsDecimal(a))
        THEN ARet("ValueError", Cents(0), Cents(0))
        ELSE ARet(None, IF t = "" THEN Cents(0) ELSE DecimalVal(t),
                        IF a = "" THEN Cents(0) ELSE DecimalVal(a))

\* the tables of the document: <<page, index>>
CTablesOf(doc) ==
    { pt \in (1..Len(doc)) \X (1..2) : pt[2] <= Len(doc[pt[1]]) }

\* C3 as stated: when some table on some page has a header with a
\* tax-amount and a total-amount column and a data row containing "total",
\* extract_totals_amazon returns the first numeric tokens of that row's
\* tax-amount and total-amount cells.
AmazonTotalsFromAnyTable ==
    apc = "done" =>
        LET hits == { pt \in CTablesOf(adoc) :
                        /\ CHeaderHasBoth(adoc[pt[1]][pt[2]])
                        /\ CTotalRows(adoc[pt[1]][pt[2]]) # {} }
        IN  hits # {} =>
              \E pt \in hits : \E r \in CTotalRows(adoc[pt[1]][pt[2]]) :
                 /\ aret = CRowNumbers(adoc[pt[1]][pt[2]], r)
                 /\ aret.exc = None

\* C4: when no table on any page has a header row with a tax-amount and a
\* total-amount column, extract_totals_amazon returns (0.0, 0.0) and does
\* not raise.
AmazonNoHeaderGivesZero ==
    apc = "done" =>
        ( (\A pt \in CTablesOf(adoc) : ~CHeaderHasBoth(adoc[pt[1]][pt[2]]))
          => aret = ARet(None, Cents(0), Cents(0)) )

\* a document with tables, none with the two columns, one with a "total"
\* row of numbers, has been read
AmazonNoHeaderSeen ==
    /\ apc = "done"
    /\ \A pt \in CTablesOf(adoc) : ~CHeaderHasBoth(adoc[pt[1]][pt[2]])
    /\ \E p \in 1..Len(adoc) : adoc[p] = <<ATableShort, ATableNoTax>>
    /\ aret = ARet(None, Cents(0), Cents(0))

(***************************************************************************)
(* Schema validator (validators.py)                                        *)
(***************************************************************************)
\* how many keys a field map holds
MaxKeys == 2

\* Python values: None, a str, an int k, a float h, a list (of k strings);
\* the number of a value is held as a float
PyNone == [t |-> "none", s |-> "", n |-> Cents(0)]
PyStr(x) == [t |-> "str", s |-> x, n |-> Cents(0)]
PyInt(k) == [t |-> "int", s |-> "", n |-> Dec(k, 0)]
PyFlt(h) == [t |-> "float", s |-> "", n |-> h]
PyList(k) == [t |-> "list", s |-> "", n |-> Dec(k, 0)]

\* bool(v)
Truthy(v) ==
    CASE v.t = "none" -> FALSE
      [] v.t = "str" -> v.s # ""
      [] OTHER -> FTruthy(v.n)

\* float(s) of a str: the value, or ValueError
FloatOfStr(f) == [exc |-> IF f.ok THEN None ELSE "ValueError", v |-> f.v]

\* float(v): the value, or the exception raised
FloatOf(v) ==
    CASE v.t = "str" -> FloatOfStr(PyFloat(v.s))
      [] v.t = "int" -> [exc |-> None, v |-> v.n]
      [] v.t = "float" -> [exc |-> None, v |-> v.n]
      [] OTHER -> [exc |-> "TypeError", v |-> Cents(0)]

\* float(v) under "except ValueError", without the "if v" guard
UnguardedOf(f) ==
    IF f.exc = "ValueError" THEN [exc |-> None, v |-> Cents(0)] ELSE f
convert_to_float_unguarded(v) == UnguardedOf(FloatOf(v))

\* a validator that converts str values alone
StrOnlyOf(v, f) ==
    IF v.t = "str" /\ Truthy(v) /\ f.exc = None
    THEN f ELSE [exc |-> None, v |-> Cents(0)]
convert_to_float_str_only(v) == StrOnlyOf(v, FloatOf(v))

\* InvoiceData.convert_to_float (lines 48-52): float(v) if v else 0.0, any
\* exception giving 0.0
ConvertOf(v, f) ==
    IF ~Truthy(v) \/ f.exc # None THEN [exc |-> None, v |-> Cents(0)] ELSE f
convert_to_float(v) == ConvertOf(v, FloatOf(v))

\* the fields of InvoiceData (lines 24-45)
StrFields ==
    { "invoice_type", "invoice_number", "invoice_date", "order_number",
      "order_date", "seller_name", "seller_address", "seller_info",
      "seller_gst", "seller_pan", "fssai_license", "billing_address",
      "shipping_address", "billing_state_code", "shipping_state_code",
      "place_of_supply", "place_of_delivery", "invoice_details",
      "amount_in_words", "reverse_charge" }
NumFields == { "total_tax", "total_amount" }
Fields == StrFields \cup NumFields

\* the one field declared Optional[str]
OptionalFields == { "order_date" }

\* every str field defaulting to ""
StrDefaultEmpty(k) == ""

\* the defaults of the str fields
StrDefault(k) ==
    CASE k = "invoice_type" -> "Tax Invoice"
      [] k = "reverse_charge" -> "No"
      [] OTHER -> ""

\* a float field from what its validator gave
VNumOf(f) ==
    [exc |-> IF f.exc = None THEN None ELSE "ValidationError", v |-> PyFlt(f.v)]

\* one field of InvoiceData(**fm): the value, or the error of the field
VField(fm, k) ==
    IF k \notin DOMAIN fm
    THEN [exc |-> None,
          v |-> IF k \in NumFields THEN PyFlt(Cents(0)) ELSE PyStr(StrDefault(k))]
    ELSE IF k \in NumFields THEN VNumOf(convert_to_float(fm[k]))
    ELSE IF fm[k].t = "str" THEN [exc |-> None, v |-> fm[k]]
    ELSE IF fm[k].t = "none" /\ k \in OptionalFields
    THEN [exc |-> None, v |-> PyNone]
    ELSE [exc |-> "ValidationError", v |-> PyNone]

VNoRec == [exc |-> "pending", rec |-> <<>>]

\* InvoiceData(**fm): keys that are no fields are ignored
InvoiceDataOf(fs) ==
    IF \E k \in Fields : fs[k].exc # None
    THEN [exc |-> "ValidationError", rec |-> <<>>]
    ELSE [exc |-> None, rec |-> [k \in Fields |-> fs[k].v]]
InvoiceData(fm) == InvoiceDataOf([k \in Fields |-> VField(fm, k)])

\* header.dict() (base.py line 27)
Dict(rec) == rec

\* the values an extractor may store under a key
StrValues == { PyNone, PyStr(""), PyStr("Acme Retail, Pune 411001") }
NumValues ==
    { PyNone, PyStr(""), PyStr("abc"), PyStr("12.5"), PyStr(" 7 "),
      PyStr("1,200.50"), PyStr("-3.25"), PyStr("1e3"), PyStr("12.345"),
      PyStr("nan"), PyInt(0), PyInt(5), PyFlt(Cents(0)), PyFlt(Cents(1250)),
      PyList(0), PyList(1) }
\* invoice_to is a key extractors_blinkit.py stores that is no field
Keys == Fields \cup { "invoice_to" }
ValuesOf(k) == IF k \in NumFields THEN NumValues ELSE StrValues

ValidatorIdle ==
    field_map = <<>> /\ vrec = VNoRec /\ vrec2 = VNoRec /\ vpc = "idle"

ValidatorInit ==
    field_map = <<>> /\ vrec = VNoRec /\ vrec2 = VNoRec /\ vpc = "build"

\* data[k] = v of an extractor
SetField ==
    /\ vpc = "build"
    /\ Cardinality(DOMAIN field_map) < MaxKeys
    /\ \E k \in Keys \ DOMAIN field_map : \E v \in ValuesOf(k) :
          field_map' = [x \in DOMAIN field_map \cup {k} |->
                           IF x = k THEN v ELSE field_map[x]]
    /\ UNCHANGED <<vrec, vrec2, vpc, notValidator>>

\* InvoiceData(**data)
Validate ==
    /\ vpc = "build"
    /\ vrec' = InvoiceData(field_map)
    /\ vpc' = "validated"
    /\ UNCHANGED <<field_map, vrec2, notValidator>>

\* InvoiceData(**header.dict())
Revalidate ==
    /\ vpc = "validated" /\ vrec.exc = None
    /\ vrec2' = InvoiceData(Dict(vrec.rec))
    /\ vpc' = "revalidated"
    /\ UNCHANGED <<field_map, vrec, notValidator>>

ValidatorNext == SetField \/ Validate \/ Revalidate

\* C5: total_tax and total_amount are coerced without raising, whatever
\* the value: an empty or falsy value (None, "", 0) gives 0.0, a value that
\* parses as a number gives that number, a value that fails to parse gives
\* 0.0; "abc" and None give 0.0 and "12.5" gives 12.5.
ValidatorCoercesNumbers ==
    vpc = "validated" =>
        /\ vrec.exc # None =>
              \E k \in DOMAIN field_map \cap StrFields :
                  field_map[k].t # "str"
        /\ vrec.exc = None =>
              \A k \in NumFields \cap DOMAIN field_map :
                  LET v == field_map[k]
                      out == vrec.rec[k]
                  IN  /\ out.t = "float"
                      /\ v \in {PyNone, PyStr(""), PyInt(0), PyFlt(Cents(0)),
                                PyList(0)} => out.n = Cents(0)
                      /\ v = PyStr("abc") => out.n = Cents(0)
                      /\ v = PyStr("12.5") => out.n = Cents(1250)
                      /\ v = PyStr(" 7 ") => out.n = Cents(700)
                      /\ v = PyStr("-3.25") => out.n = Cents(0 - 325)
                      /\ v = PyStr("1,200.50") => out.n = Cents(0)
                      /\ v = PyStr("1e3") => out.n = Cents(100000)
                      /\ v = PyStr("12.345") => out.n = Dec(12345, 0 - 3)
                      /\ v = PyStr("nan") => out.n = FNan
                      /\ v = PyInt(5) => out.n = Cents(500)
                      /\ v = PyFlt(Cents(1250)) => out.n = Cents(1250)
                      /\ v = PyList(1) => out.n = Cents(0)

\* {total_tax: "abc", total_amount: None} has been validated
ValidatorAbcNoneSeen ==
    /\ vpc = "validated"
    /\ field_map = [k \in NumFields |->
                       IF k = "total_tax" THEN PyStr("abc") ELSE PyNone]
    /\ vrec.exc = None
    /\ vrec.rec["total_tax"] = PyFlt(Cents(0))
    /\ vrec.rec["total_amount"] = PyFlt(Cents(0))

\* C6 as stated: in every validated record total_tax and total_amount are
\* floats, every str field is a str and never None, and every str field the
\* field map does not supply is the empty string.
ValidatorStringsNeverNullDefaultEmpty ==
    (vpc = "validated" /\ vrec.exc = None) =>
        /\ \A k \in NumFields : vrec.rec[k].t = "float"
        /\ \A k \in StrFields : vrec.rec[k].t = "str"
        /\ \A k \in StrFields \ DOMAIN field_map : vrec.rec[k] = PyStr("")

\* C6 as amended: total_tax and total_amount are floats; every str field
\* but order_date is a str, order_date is a str or None, None only when the
\* field map supplies None; a str field the field map does not supply has
\* its schema default: "Tax Invoice" for invoice_type, "No" for
\* reverse_charge, the empty string for the others.
ValidatorRecordShape ==
    (vpc = "validated" /\ vrec.exc = None) =>
        /\ \A k \in NumFields : vrec.rec[k].t = "float"
        /\ \A k \in StrFields \ {"order_date"} : vrec.rec[k].t = "str"
        /\ vrec.rec["order_date"].t \in {"str", "none"}
        /\ vrec.rec["order_date"].t = "none" =>
              ("order_date" \in DOMAIN field_map
                 /\ field_map["order_date"] = PyNone)
        /\ \A k \in StrFields \ DOMAIN field_map :
              vrec.rec[k] =
                 PyStr(IF k = "invoice_type" THEN "Tax Invoice"
                       ELSE IF k = "reverse_charge" THEN "No" ELSE "")

\* a field map with order_date None and no invoice_type has been validated
ValidatorNullOrderDateSeen ==
    /\ vpc = "validated" /\ vrec.exc = None
    /\ "order_date" \in DOMAIN field_map
    /\ field_map["order_date"] = PyNone
    /\ vrec.rec["order_date"] = PyNone
    /\ vrec.rec["invoice_type"] = PyStr("Tax Invoice")
    /\ vrec.rec["seller_name"] = PyStr("")

\* C7: validation is idempotent: validating the field map of a validated
\* record gives that record again.
ValidatorIdempotent ==
    vpc = "revalidated" => vrec2 = vrec

\* a record whose total_tax came from the str "12.5" has been validated again
ValidatorRevalidatedSeen ==
    /\ vpc = "revalidated"
    /\ "total_tax" \in DOMAIN field_map
    /\ field_map["total_tax"] = PyStr("12.5")
    /\ vrec.rec["total_tax"] = PyFlt(Cents(1250))
    /\ vrec2.exc = None

(***************************************************************************)
(* Flipkart line items (extractors_flipkart.py)                            *)
(***************************************************************************)
\* how many cells the data row of the table has
MaxFCells == 2

RECURSIVE SplitNl(_)
\* s.split("\n")
SplitNl(s) ==
    IF \E i \in 1..Len(s) : Ch(s, i) = "\n"
    THEN LET i == CHOOSE i \in 1..Len(s) :
                    Ch(s, i) = "\n" /\ \A j \in 1..(i - 1) : Ch(s, j) # "\n"
         IN  <<SubSeq(s, 1, i - 1)>> \o SplitNl(SubSeq(s, i + 1, Len(s)))
    ELSE <<s>>

\* where the run of digits that starts at i ends
DigitRunEnd(s, i) ==
    CHOOSE e \in i..Len(s) :
        /\ \A j \in i..e : Ch(s, j) \in Digits
        /\ (e = Len(s) \/ Ch(s, e + 1) \notin Digits)

\* where the match of \d+\.\d+|\d+ that starts at i ends
NumTokEnd(s, i) ==
    LET a == DigitRunEnd(s, i)
    IN  IF a + 2 <= Len(s) /\ Ch(s, a + 1) = "." /\ Ch(s, a + 2) \in Digits
        THEN DigitRunEnd(s, a + 2) ELSE a

RECURSIVE FindNumsFrom(_, _)
\* the matches from position i on
FindNumsFrom(s, i) ==
    IF \A j \in i..Len(s) : Ch(s, j) \notin Digits THEN <<>>
    ELSE LET a == CHOOSE j \in i..Len(s) :
                    /\ Ch(s, j) \in Digits
                    /\ \A m \in i..(j - 1) : Ch(s, m) \notin Digits
         IN  <<SubSeq(s, a, NumTokEnd(s, a))>>
                \o FindNumsFrom(s, NumTokEnd(s, a) + 1)

\* re.findall(r"\d+\.\d+|\d+", line)
FindNums(line) == FindNumsFrom(line, 1)

RECURSIVE FCellLines(_)
\* lines 147-150 on the cells of one row
FCellLines(row) ==
    IF row = <<>> THEN <<>>
    ELSE (IF CellTruthy(row[1]) THEN SplitNl(row[1]) ELSE <<>>)
            \o FCellLines(Tail(row))

RECURSIVE FLines(_)
\* lines 145-150: the lines of the cells of the table, in order
FLines(table) ==
    IF table = <<>> THEN <<>>
    ELSE FCellLines(table[1]) \o FLines(Tail(table))

\* nums[:6]: the first six tokens
FFirstSix(nums) == SubSeq(nums, 1, 6)

\* nums[-6:]
FLastSix(nums) == SubSeq(nums, Len(nums) - 5, Len(nums))

RECURSIVE FRows(_, _)
\* lines 152-161: the (desc, nums) pairs, desc being the lines gathered
FRows(lines, desc) ==
    IF lines = <<>> THEN <<>>
    ELSE LET nums == FindNums(lines[1])
         IN  IF Len(nums) >= 6
             THEN << <<desc, FLastSix(nums)>> >> \o FRows(Tail(lines), <<>>)
             ELSE FRows(Tail(lines), Append(desc, lines[1]))

\* any(k in full_desc.lower() for k in ["shipping", "handling"])
FIsCharge(full_desc) ==
    \/ Contains(Lower(full_desc), "shipping")
    \/ Contains(Lower(full_desc), "handling")

RECURSIVE FItems(_, _)
\* lines 163-184: the items of the pairs, i being the enumerate index
FItems(rows, i) ==
    IF rows = <<>> THEN <<>>
    ELSE LET full_desc == JoinSep(rows[1][1], " ")
             n == rows[1][2]
         IN  IF FIsCharge(full_desc) THEN FItems(Tail(rows), i + 1)
             ELSE << [ SlNo |-> i,
                       Description |-> full_desc,
                       UnitPrice |-> n[2],
                       Discount |-> n[3],
                       Qty |-> n[1],
                       NetAmount |-> n[4],
                       TaxRate |-> "",
                       TaxType |-> "IGST",
                       TaxAmount |-> n[5],
                       TotalAmount |-> n[6] ] >>
                    \o FItems(Tail(rows), i + 1)

\* extract_line_items(pdf_path), of the tables of page 1
extract_line_items_flipkart(tables) ==
    IF tables = <<>> THEN <<>>
    ELSE FItems(FRows(FLines(tables[1]), <<>>), 1)

FHeaderRow == << "Product", "Qty Gross Discount Taxable IGST Total" >>

FCells ==
    { "Wireless Mouse\nModel M185",
      "2 100.0 10.0 180.0 18.0 198.0",
      "USB 3 Hub 4 port 1 499.00 0.00 422.88 76.12 499.00",
      "Shipping And Handling Charges\n1 40 0 40 0 40",
      "Qty 1 Total 499.00",
      "Cover 1 1,299.00 0 1,100.85 198.15 1,299.00 INR",
      None,
      "" }

FTables ==
    UNION { { <<FHeaderRow, cells>> : cells \in [1..n -> FCells] } :
            n \in 0..MaxFCells }

FDocs == { <<>> } \cup { <<t>> : t \in FTables }

FlipkartIdle == fdoc = <<>> /\ fitems = <<>> /\ fpc = "idle"

FlipkartInit == fdoc \in FDocs /\ fitems = <<>> /\ fpc = "start"

\* extract_line_items(pdf_path)
FlipkartItems ==
    /\ fpc = "start"
    /\ fitems' = extract_line_items_flipkart(fdoc)
    /\ fpc' = "done"
    /\ UNCHANGED <<fdoc, notFlipkart>>

\* what the claim about the item parser speaks of: the lines of the table,
\* and which of them have six numeric tokens at least
CLines(tables) == IF tables = <<>> THEN <<>> ELSE FLines(tables[1])
CNumIdx(tables) ==
    { i \in 1..Len(CLines(tables)) : Len(FindNums(CLines(tables)[i])) >= 6 }
\* the k-th of these lines, and the description lines gathered before it
CNumLine(tables, k) ==
    CHOOSE i \in CNumIdx(tables) :
        Cardinality({ j \in CNumIdx(tables) : j < i }) = k - 1
CDescOf(tables, k) ==
    LET i == CNumLine(tables, k)
        lo == IF k = 1 THEN 0 ELSE CNumLine(tables, k - 1)
    IN  { CLines(tables)[j] : j \in (lo + 1)..(i - 1) }

\* C8: the last six numeric tokens of a line with six or more are assigned
\* in the fixed order qty, unit price, discount, net, tax, total, whatever
\* precedes them: the k-th such line gives the item numbered k, unless the
\* description gathered before it names shipping or handling; the tokens
\* "2", "100.0", "10.0", "180.0", "18.0", "198.0" give qty=2,
\* unit_price=100.0, discount=10.0, net=180.0, tax=18.0, total=198.0.
FlipkartLastSixInOrder ==
    fpc = "done" =>
        /\ \A j \in 1..Len(fitems) :
              LET it == fitems[j]
              IN  /\ it.SlNo \in 1..Cardinality(CNumIdx(fdoc))
                  /\ LET nums ==
                            FindNums(CLines(fdoc)[CNumLine(fdoc, it.SlNo)])
                         m == Len(nums)
                     IN  /\ it.Qty = nums[m - 5]
                         /\ it.UnitPrice = nums[m - 4]
                         /\ it.Discount = nums[m - 3]
                         /\ it.NetAmount = nums[m - 2]
                         /\ it.TaxAmount = nums[m - 1]
                         /\ it.TotalAmount = nums[m]
                  /\ CLines(fdoc)[CNumLine(fdoc, it.SlNo)]
                        = "2 100.0 10.0 180.0 18.0 198.0"
                     => /\ it.Qty = "2" /\ it.UnitPrice = "100.0"
                        /\ it.Discount = "10.0" /\ it.NetAmount = "180.0"
                        /\ it.TaxAmount = "18.0" /\ it.TotalAmount = "198.0"
        /\ \A k \in 1..Cardinality(CNumIdx(fdoc)) :
              (\A d \in CDescOf(fdoc, k) :
                   /\ ~Contains(Lower(d), "shipping")
                   /\ ~Contains(Lower(d), "handling"))
                 => \E j \in 1..Len(fitems) : fitems[j].SlNo = k

\* a line with numeric tokens before its last six has become an item
FlipkartLongLineSeen ==
    /\ fpc = "done"
    /\ \E j \in 1..Len(fitems) :
          /\ fitems[j].SlNo = 2
          /\ Cardinality(CNumIdx(fdoc)) >= 2
          /\ CLines(fdoc)[CNumLine(fdoc, 2)]
               = "USB 3 Hub 4 port 1 499.00 0.00 422.88 76.12 499.00"
          /\ fitems[j].Qty = "1"
          /\ fitems[j].UnitPrice = "499.00"
          /\ fitems[j].TotalAmount = "499.00"

(***************************************************************************)
(* Blinkit (extractors_blinkit.py) and its extractor class (base.py)       *)
(***************************************************************************)
Letters ==
    { "a", "b", "c", "d", "e", "f", "g", "h", "i", "j", "k", "l", "m", "n",
      "o", "p", "q", "r", "s", "t", "u", "v", "w", "x", "y", "z",
      "A", "B", "C", "D", "E", "F", "G", "H", "I", "J", "K", "L", "M", "N",
      "O", "P", "Q", "R", "S", "T", "U", "V", "W", "X", "Y", "Z",
      "ª", "µ", "º", "À", "Á", "Â", "Ã", "Ä", "Å", "Æ", "Ç", "È", "É", "Ê",
      "Ë", "Ì", "Í", "Î", "Ï", "Ð", "Ñ", "Ò", "Ó", "Ô", "Õ", "Ö", "Ø", "Ù",
      "Ú", "Û", "Ü", "Ý", "Þ", "ß", "à", "á", "â", "ã", "ä", "å", "æ", "ç",
      "è", "é", "ê", "ë", "ì", "í", "î", "ï", "ð", "ñ", "ò", "ó", "ô", "õ",
      "ö", "ø", "ù", "ú", "û", "ü", "ý", "þ", "ÿ",
      CapitalYDiaeresis }

\* the character classes of the patterns: \w (the letters, the digits, the
\* other numerals and "_"), [\w\-], [^,], \d
WordChars == Letters \cup Digits \cup {"_", "²", "³", "¹", "¼", "½", "¾"}
IsWord(c) == c \in WordChars
IsWordOrDash(c) == IsWord(c) \/ c = "-"
IsNotComma(c) == c # ","
IsDigit(c) == c \in Digits

RECURSIVE CleanRange(_, _, _)
\* re.sub(r"\s+", " ", s) on the characters lo..hi of s, by halves
CleanRange(s, lo, hi) ==
    IF lo > hi THEN ""
    ELSE IF lo = hi
    THEN IF ~IsSpace(Ch(s, lo)) THEN Ch(s, lo)
         ELSE IF lo = 1 \/ ~IsSpace(Ch(s, lo - 1)) THEN " " ELSE ""
    ELSE CleanRange(s, lo, (lo + hi) \div 2)
            \o CleanRange(s, (lo + hi) \div 2 + 1, hi)

\* safe_float of extractors_blinkit.py
safe_float_blinkit(val) ==
    OrZero(PyFloat(Strip(RemoveCh(RemoveCh(Str(val), ","), "%"))))

\* clean(text) of extractors_blinkit.py
CleanStr(s) == Strip(CleanRange(s, 1, Len(s)))
clean(t) == CleanStr(Str(t))

\* the literal lit matches at position p of s (under re.I when ic)
LitAt(s, p, lit, ic) ==
    /\ p >= 1 /\ p + Len(lit) - 1 <= Len(s)
    /\ IF ic THEN Lower(SubSeq(s, p, p + Len(lit) - 1)) = Lower(lit)
       ELSE SubSeq(s, p, p + Len(lit) - 1) = lit

\* where \s* started at p stops
SkipSp(s, p) ==
    CHOOSE q \in p..(Len(s) + 1) :
        /\ \A j \in p..(q - 1) : IsSpace(Ch(s, j))
        /\ (q = Len(s) + 1 \/ ~IsSpace(Ch(s, q)))

\* where the longest run of the class T started at p stops, p - 1 if empty
RunEnd(s, p, T(_)) ==
    CHOOSE e \in (p - 1)..Len(s) :
        /\ \A j \in p..e : T(Ch(s, j))
        /\ (e = Len(s) \/ ~T(Ch(s, e + 1)))

\* re.search(label \s* : \s* (T+), s): group 1, "" when there is no match.
\* sp says that T holds of a space, which \s* may then give back to T+.
GrabLabelled(s, label, ic, T(_), sp) ==
    LET colon(p) == SkipSp(s, p + Len(label))
        start(p) == SkipSp(s, colon(p) + 1)
        ok(p) == /\ LitAt(s, p, label, ic)
                 /\ colon(p) <= Len(s) /\ Ch(s, colon(p)) = ":"
                 /\ \/ RunEnd(s, start(p), T) >= start(p)
                    \/ sp /\ start(p) > colon(p) + 1
    IN  IF \E p \in 1..Len(s) : ok(p)
        THEN LET p == CHOOSE p \in 1..Len(s) :
                        ok(p) /\ \A j \in 1..(p - 1) : ~ok(j)
             IN  IF RunEnd(s, start(p), T) >= start(p)
                 THEN SubSeq(s, start(p), RunEnd(s, start(p), T))
                 ELSE " "
        ELSE ""

\* re.search(r"FSSAI.*?(\d{10,})", s): group 1, "" when there is no match
GrabFssai(s) ==
    LET ten(q) == q + 9 <= Len(s) /\ \A j \in q..(q + 9) : IsDigit(Ch(s, j))
        ok(p) == LitAt(s, p, "FSSAI", FALSE)
                    /\ \E q \in (p + 5)..Len(s) : ten(q)
    IN  IF \E p \in 1..Len(s) : ok(p)
        THEN LET p == CHOOSE p \in 1..Len(s) :
                        ok(p) /\ \A j \in 1..(p - 1) : ~ok(j)
                 q == CHOOSE q \in (p + 5)..Len(s) :
                        ten(q) /\ \A j \in (p + 5)..(q - 1) : ~ten(j)
             IN  SubSeq(s, q, RunEnd(s, q, IsDigit))
        ELSE ""

\* re.search(r"Address\s*:\s*(.*?)(Order Id|$)", s, re.I): group 1
GrabAddress(s) ==
    LET colon(p) == SkipSp(s, p + 7)
        ok(p) == /\ LitAt(s, p, "Address", TRUE)
                 /\ colon(p) <= Len(s) /\ Ch(s, colon(p)) = ":"
    IN  IF \E p \in 1..Len(s) : ok(p)
        THEN LET p == CHOOSE p \in 1..Len(s) :
                        ok(p) /\ \A j \in 1..(p - 1) : ~ok(j)
                 r == SkipSp(s, colon(p) + 1)
                 stop(e) == e = Len(s) + 1 \/ LitAt(s, e, "Order Id", TRUE)
                 e == CHOOSE e \in r..(Len(s) + 1) :
                        stop(e) /\ \A j \in r..(e - 1) : ~stop(j)
             IN  SubSeq(s, r, e - 1)
        ELSE ""

\* re.search(r"Amount in\s+(.*?)\s+Words", s, re.I): group 1 (s is cleaned:
\* its runs of whitespace are single spaces)
GrabAmountWords(s) ==
    LET stop(e) == e <= Len(s) /\ IsSpace(Ch(s, e))
                     /\ LitAt(s, e + 1, "Words", TRUE)
        ok(p) == /\ LitAt(s, p, "Amount in", TRUE)
                 /\ p + 9 <= Len(s) /\ IsSpace(Ch(s, p + 9))
                 /\ \E e \in (p + 10)..Len(s) : stop(e)
    IN  IF \E p \in 1..Len(s) : ok(p)
        THEN LET p == CHOOSE p \in 1..Len(s) :
                        ok(p) /\ \A j \in 1..(p - 1) : ~ok(j)
                 e == CHOOSE e \in (p + 10)..Len(s) :
                        stop(e) /\ \A j \in (p + 10)..(e - 1) : ~stop(j)
             IN  SubSeq(s, p + 10, e - 1)
        ELSE ""

\* s.split(k, 1)[-1] for a k that s contains: what follows the first k
AfterFirst(s, k) ==
    LET i == CHOOSE i \in 1..Len(s) :
                /\ SubSeq(s, i, i + Len(k) - 1) = k
                /\ \A j \in 1..(i - 1) : SubSeq(s, j, j + Len(k) - 1) # k
    IN  SubSeq(s, i + Len(k), Len(s))

\* the frame df: a sequence of rows of equal length.  df.iloc[r, c] with r
\* and c counted from 0 as in the code; FALSE where it raises IndexError
InGrid(df, r, c) == r + 1 <= Len(df) /\ c + 1 <= Len(df[1])
ILoc(df, r, c) == df[r + 1][c + 1]

\* the cells extract_header reads, in the order it reads them
BHeaderCells ==
    << <<1, 10>>, <<1, 0>>, <<2, 0>>, <<3, 0>>, <<4, 0>>, <<4, 10>>,
       <<8, 0>> >>

BSellerName == "Zomato Hyperpure Private Limited ZHPL"

\* extract_header(df) with every cell it reads in the grid
BHeaderData(df) ==
    LET r1c10 == clean(ILoc(df, 1, 10))
        r1c0 == clean(ILoc(df, 1, 0))
        r2c0 == clean(ILoc(df, 2, 0))
        r3c0 == clean(ILoc(df, 3, 0))
        r4c0 == clean(ILoc(df, 4, 0))
        r4c10 == clean(ILoc(df, 4, 10))
        r8c0 == clean(ILoc(df, 8, 0))
        seller_address == IF Contains(r1c0, BSellerName)
                          THEN Strip(AfterFirst(r1c0, BSellerName)) ELSE ""
        address == Strip(GrabAddress(r4c0))
        invoice_date ==
            GrabLabelled(r4c10, "Invoice", FALSE, IsWordOrDash, FALSE)
        pos == GrabLabelled(r4c10, "Place of", TRUE, IsWord, FALSE)
    IN  [ invoice_number |->
              GrabLabelled(r1c10, "Invoice Number", FALSE, IsWordOrDash,
                           FALSE),
          seller_name |-> BSellerName,
          seller_address |-> seller_address,
          seller_info |-> BSellerName \o ", " \o seller_address,
          seller_gst |-> GrabLabelled(r2c0, "GSTIN", FALSE, IsWord, FALSE),
          fssai_license |-> GrabFssai(r3c0),
          invoice_to |->
              Strip(GrabLabelled(r4c0, "Invoice To Name", TRUE, IsNotComma,
                                 TRUE)),
          billing_address |-> address,
          shipping_address |-> address,
          order_number |->
              GrabLabelled(r4c10, "Order Id", FALSE, IsDigit, FALSE),
          invoice_date |-> invoice_date,
          order_date |-> invoice_date,
          place_of_supply |-> pos,
          place_of_delivery |-> pos,
          amount_in_words |-> Strip(GrabAmountWords(r8c0)),
          invoice_type |-> "Tax Invoice" ]

\* extract_header(df) (lines 19-93): the data, or the IndexError of the
\* first df.iloc[r, c] outside the grid
extract_header_blinkit(df) ==
    IF \A i \in 1..Len(BHeaderCells) :
           InGrid(df, BHeaderCells[i][1], BHeaderCells[i][2])
    THEN [exc |-> None, data |-> BHeaderData(df)]
    ELSE [exc |-> "IndexError", data |-> <<>>]

\* one row of the item table built by extract_items_and_totals
BItemOf(row, n, net_val, total_val) ==
    [ SlNo |-> n, Description |-> clean(row[3]),
      UnitPrice |-> safe_float_blinkit(row[4]),
      Discount |-> safe_float_blinkit(row[5]),
      Qty |-> safe_float_blinkit(row[6]),
      NetAmount |-> net_val, TaxRate |-> "", TaxType |-> "GST",
      TaxAmount |-> Round2(FSub(total_val, net_val)),
      TotalAmount |-> total_val ]
BItem(row, n) ==
    BItemOf(row, n, safe_float_blinkit(row[7]), safe_float_blinkit(row[14]))

\* what the loop gives: the items and the totals, or the exception raised
BRet(exc, items, tax, total) ==
    [exc |-> exc, items |-> items, tax |-> tax, total |-> total]

RECURSIVE BItemsFromSkipTotal(_, _, _)
\* a loop that passes over the total row without reading it or stopping
BItemsFromSkipTotal(df, i, items) ==
    IF i > Len(df)
    THEN BRet(None, items, Cents(0), Cents(0))
    ELSE LET row == df[i]
         IN  IF Len(row) < 1
             THEN BRet("KeyError", <<>>, Cents(0), Cents(0))
             ELSE IF Lower(Strip(Str(row[1]))) = "total"
             THEN BItemsFromSkipTotal(df, i + 1, items)
             ELSE IF Len(row) < 3
             THEN BRet("KeyError", <<>>, Cents(0), Cents(0))
             ELSE IF clean(row[3]) = ""
             THEN BItemsFromSkipTotal(df, i + 1, items)
             ELSE IF Len(row) < 14
             THEN BRet("KeyError", <<>>, Cents(0), Cents(0))
             ELSE BItemsFromSkipTotal(df, i + 1,
                                      Append(items, BItem(row, Len(items) + 1)))

RECURSIVE BItemsFrom(_, _, _)
\* the loop of extract_items_and_totals from the row i (counted from 1)
\* on; row[k] of a row without the column k raises KeyError
BItemsFrom(df, i, items) ==
    IF i > Len(df)
    THEN BRet(None, items, Cents(0), Cents(0))
    ELSE LET row == df[i]
         IN  IF Len(row) < 1
             THEN BRet("KeyError", <<>>, Cents(0), Cents(0))
             ELSE IF Lower(Strip(Str(row[1]))) = "total"
             THEN IF Len(row) < 14
                  THEN BRet("KeyError", <<>>, Cents(0), Cents(0))
                  ELSE BRet(None, items,
                            Round2(FAdd(safe_float_blinkit(row[9]),
                                        safe_float_blinkit(row[11]))),
                            Round2(safe_float_blinkit(row[14])))
             ELSE IF Len(row) < 3
             THEN BRet("KeyError", <<>>, Cents(0), Cents(0))
             ELSE IF clean(row[3]) = "" THEN BItemsFrom(df, i + 1, items)
             ELSE IF Len(row) < 14
             THEN BRet("KeyError", <<>>, Cents(0), Cents(0))
             ELSE BItemsFrom(df, i + 1,
                             Append(items, BItem(row, Len(items) + 1)))

FIRST_ITEM_ROW == 6

\* extract_items_and_totals(df) (lines 96-139)
extract_items_and_totals_blinkit(df) == BItemsFrom(df, FIRST_ITEM_ROW + 1, <<>>)

\* the field map BlinkitExtractor.extract_header hands to the validator
BFieldMap(data, tax, total) ==
    [k \in DOMAIN data \cup {"total_tax", "total_amount"} |->
        IF k = "total_tax" THEN PyFlt(tax)
        ELSE IF k = "total_amount" THEN PyFlt(total)
        ELSE PyStr(data[k])]

BNoData == [exc |-> "pending", data |-> <<>>]

\* the local variable data of BlinkitExtractor.extract_header (base.py
\* line 94): not reached when page.extract_tables() is empty
BlinkitData(tables) ==
    IF tables = <<>> THEN BNoData
    ELSE extract_header_blinkit(DataFrame(tables[1]))

\* InvoiceData(**data, total_tax=..., total_amount=...) (base.py lines 95-98)
\* from what extract_header and extract_items_and_totals gave
BHeaderOf(h, it) ==
    IF h.exc # None THEN [exc |-> h.exc, rec |-> <<>>]
    ELSE IF it.exc # None THEN [exc |-> it.exc, rec |-> <<>>]
    ELSE InvoiceData(BFieldMap(h.data, it.tax, it.total))

BHeaderOfFrame(df) ==
    BHeaderOf(extract_header_blinkit(df), extract_items_and_totals_blinkit(df))

\* BlinkitExtractor.extract_header (base.py lines 89-98)
BlinkitExtractor_extract_header(tables) ==
    IF tables = <<>> THEN [exc |-> "IndexError", rec |-> <<>>]
    ELSE BHeaderOfFrame(DataFrame(tables[1]))

BLineItemsOf(it) == [exc |-> it.exc, items |-> it.items]

\* BlinkitExtractor.extract_line_items (base.py lines 100-106)
BlinkitExtractor_extract_line_items(tables) ==
    IF tables = <<>> THEN [exc |-> "IndexError", items |-> <<>>]
    ELSE BLineItemsOf(extract_items_and_totals_blinkit(DataFrame(tables[1])))

MaxBRows == 10

\* contents of the cells extract_header reads on the known template, in the
\* order of BHeaderCells, and contents its patterns do not match
BGood ==
    << "Invoice Number : C3B1-24\nIRN",
       "Zomato Hyperpure Private Limited ZHPL\nPlot 12, Gurugram",
       "GSTIN : 06AADCH1234F1Z5",
       "FSSAI License No. 10019064001234",
       "Invoice To Name : Asha Rao, Address : 4 MG Road Order Id",
       "Order Id : 778899 Invoice : 12-Jan-2024 Place of : Karnataka",
       "Amount in Five Hundred Only Words" >>
BMiss ==
    << None, "Blink Commerce", "", "FSSAI 12345", "Invoice To", None,
       "Amount: 500" >>

BItemRow ==
    << "1", None, "Amul Butter", "50.00", "0", "2", "100.00", "2.5%",
       "2.50", "2.5%", "2.50", None, None, "105.00" >>
BTotalRow ==
    << "Total", None, None, None, None, None, "100.00", None, "2.50", None,
       "2.50", None, None, "105.00" >>
BBlankRow ==
    << None, None, "", None, None, None, None, None, None, None, None, None,
       None, None >>
\* what the rows 6 and 7 of a grid hold
BItemRows ==
    { <<BItemRow, BTotalRow>>, <<BTotalRow, BItemRow>>,
      <<BBlankRow, BItemRow>>,
      <<[BTotalRow EXCEPT ![1] = " TOTAL\n"], BItemRow>> }

\* which of the cells read hold a content the pattern misses: none of
\* them, all of them, or one of them
BProfiles == {0, 8} \cup (1..7)

BCell(r, c, prof, rows) ==
    IF \E i \in 1..7 : BHeaderCells[i] = <<r, c>>
    THEN LET i == CHOOSE i \in 1..7 : BHeaderCells[i] = <<r, c>>
         IN  IF prof = 8 \/ prof = i THEN BMiss[i] ELSE BGood[i]
    ELSE IF r \in {6, 7} THEN rows[r - 5][c + 1]
    ELSE None

BGrid(nr, nc, prof, rows) ==
    [r \in 1..nr |-> [c \in 1..nc |-> BCell(r - 1, c - 1, prof, rows)]]

\* page.extract_tables() of page 1: no table, or one grid
BTables ==
    { <<>> } \cup
    { << BGrid(nr, nc, prof, rows) >> :
        nr \in {4, 8, 9, MaxBRows}, nc \in {10, 11, 14},
        prof \in BProfiles, rows \in BItemRows }

BNoHdr == [exc |-> "pending", rec |-> <<>>]
BNoRet == [header |-> <<>>, items |-> <<>>]

BlinkitIdle ==
    /\ ktables = <<>> /\ kdata = BNoData /\ khdr = BNoHdr
    /\ kitems = <<>> /\ kret = BNoRet /\ kpc = "idle"

BlinkitInit ==
    /\ ktables \in BTables /\ kdata = BNoData /\ khdr = BNoHdr
    /\ kitems = <<>> /\ kret = BNoRet /\ kpc = "start"

\* header = self.extract_header() (base.py line 25)
BlinkitExtractHeader ==
    /\ kpc = "start"
    /\ kdata' = BlinkitData(ktables)
    /\ khdr' = BlinkitExtractor_extract_header(ktables)
    /\ kpc' = IF khdr'.exc = None THEN "items" ELSE "raised"
    /\ UNCHANGED <<ktables, kitems, kret, notBlinkit>>

\* items = self.extract_line_items() (base.py line 26)
BlinkitExtractLineItems ==
    /\ kpc = "items"
    /\ LET it == BlinkitExtractor_extract_line_items(ktables)
       IN  /\ kitems' = it.items
           /\ kpc' = IF it.exc = None THEN "return" ELSE "raised"
    /\ UNCHANGED <<ktables, kdata, khdr, kret, notBlinkit>>

\* return header.dict(), items (base.py line 27)
BlinkitReturn ==
    /\ kpc = "return"
    /\ kret' = [header |-> Dict(khdr.rec), items |-> kitems]
    /\ kpc' = "done"
    /\ UNCHANGED <<ktables, kdata, khdr, kitems, notBlinkit>>

\* except Exception: return {}, pd.DataFrame() (base.py lines 28-30)
BlinkitExcept ==
    /\ kpc = "raised"
    /\ kret' = [header |-> <<>>, items |-> <<>>]
    /\ kpc' = "done"
    /\ UNCHANGED <<ktables, kdata, khdr, kitems, notBlinkit>>

BlinkitNext ==
    \/ BlinkitExtractHeader
    \/ BlinkitExtractLineItems
    \/ BlinkitReturn
    \/ BlinkitExcept

\* the header fields extract_header looks up, the cell each one reads, and
\* the value the cell's content on the known template gives it
CBlinkitLookups ==
    { <<"invoice_number", 1, "C3B1-24">>,
      <<"seller_address", 2, "Plot 12, Gurugram">>,
      <<"seller_gst", 3, "06AADCH1234F1Z5">>,
      <<"fssai_license", 4, "10019064001234">>,
      <<"invoice_to", 5, "Asha Rao">>,
      <<"billing_address", 5, "4 MG Road">>,
      <<"order_number", 6, "778899">>,
      <<"invoice_date", 6, "12-Jan-2024">>,
      <<"place_of_supply", 6, "Karnataka">>,
      <<"amount_in_words", 7, "Five Hundred Only">> }

CCellOf(df, i) ==
    IF BHeaderCells[i][1] + 1 <= Len(df) /\ BHeaderCells[i][2] + 1 <= Len(df[1])
    THEN df[BHeaderCells[i][1] + 1][BHeaderCells[i][2] + 1]
    ELSE "absent"

\* C9: once Blinkit's header extraction has run on a grid, it has raised
\* nothing; every field whose cell is absent from the grid or holds a
\* content its pattern misses has the default "", and every field whose
\* cell holds the template's content has the value read from it.
BlinkitFieldMissGivesDefault ==
    (kpc \notin {"idle", "start"} /\ ktables # <<>>) =>
        /\ kdata.exc = None
        /\ \A l \in CBlinkitLookups :
              LET cell == CCellOf(ktables[1], l[2])
              IN  kdata.data[l[1]] = IF cell = BGood[l[2]] THEN l[3] ELSE ""

(***************************************************************************)
(* process_invoice and the batch loop (main.py)                            *)
(***************************************************************************)
MaxDocs == 2

\* a DataFrame: its column labels and its rows
EmptyFrame == [columns |-> <<>>, rows |-> <<>>]

RECURSIVE Replace(_, _, _)
\* s.replace(old, new)
Replace(s, old, new) ==
    IF ~Contains(s, old) THEN s
    ELSE LET i == CHOOSE i \in 1..Len(s) :
                    /\ SubSeq(s, i, i + Len(old) - 1) = old
                    /\ \A j \in 1..(i - 1) : SubSeq(s, j, j + Len(old) - 1) # old
         IN  SubSeq(s, 1, i - 1) \o new
                \o Replace(SubSeq(s, i + Len(old), Len(s)), old, new)

\* the file names of the input folder, as sorted() orders them
BatchNames == << "a.pdf", "b_amazon_x.pdf", "c.pdf" >>

\* what a PDF file is to process_invoice: whether pdfplumber opens it, the
\* extract_text() of its pages, what the methods of its extractor do
\* ("fields": both return, "header_raises": extract_header raises,
\* "items_raise": extract_header returns and extract_line_items raises) and
\* how the template is read and the workbook written ("saved": lines
\* 96-108 raise nothing; "template_raises": reading the template raises,
\* before there is a writer; "sheet_raises": items_df.to_excel raises
\* inside the with block of the writer)
BatchKinds ==
    { [opens |-> TRUE, pages |-> <<"Lorem ipsum dolor">>,
       extract |-> "fields", writes |-> "saved"],
      [opens |-> TRUE, pages |-> <<None>>, extract |-> "fields",
       writes |-> "saved"],
      [opens |-> FALSE, pages |-> <<>>, extract |-> "fields",
       writes |-> "saved"],
      [opens |-> TRUE, pages |-> <<"Amazon Seller Services", "Tax Invoice">>,
       extract |-> "fields", writes |-> "saved"],
      [opens |-> TRUE, pages |-> <<"Amazon Seller Services", "Tax Invoice">>,
       extract |-> "fields", writes |-> "template_raises"],
      [opens |-> TRUE, pages |-> <<"Amazon Seller Services", "Tax Invoice">>,
       extract |-> "fields", writes |-> "sheet_raises"],
      [opens |-> TRUE, pages |-> <<"Flipkart Internet">>,
       extract |-> "fields", writes |-> "saved"],
      [opens |-> TRUE, pages |-> <<"Zomato", "Restaurant">>,
       extract |-> "fields", writes |-> "saved"],
      [opens |-> TRUE, pages |-> <<"Blinkit">>, extract |-> "fields",
       writes |-> "saved"],
      [opens |-> TRUE, pages |-> <<"Blinkit">>, extract |-> "header_raises",
       writes |-> "saved"],
      [opens |-> TRUE, pages |-> <<"Blinkit">>, extract |-> "items_raise",
       writes |-> "saved"],
      [opens |-> TRUE, pages |-> <<"Swiggy Instamart">>,
       extract |-> "fields", writes |-> "saved"] }

BatchDoc(name, kind) ==
    [name |-> name, opens |-> kind.opens, pages |-> kind.pages,
     extract |-> kind.extract, writes |-> kind.writes]

\* sorted(pdf_files) for the files named by the positions ns of BatchNames
SortedFiles(ns, kindOf) ==
    LET rank(n) == Cardinality({m \in ns : m <= n})
    IN  [i \in 1..Cardinality(ns) |->
            LET n == CHOOSE n \in ns : rank(n) = i
            IN  BatchDoc(BatchNames[n], kindOf[n])]

\* the input folders: at least one PDF, at most MaxDocs
BatchFolders ==
    UNION { { SortedFiles(ns, kindOf) : kindOf \in [ns -> BatchKinds] } :
              ns \in { x \in SUBSET (1..Len(BatchNames)) :
                          x # {} /\ Cardinality(x) <= MaxDocs } }

INPUT_DIR == "C:\\Drive_d\\Python\\F-AI\\T3\\Input"
OUTPUT_DIR == "C:\\Drive_d\\Python\\F-AI\\T3\\Output"
TEMPLATE_PATH == "C:\\Drive_d\\Python\\F-AI\\T3\\Output Template.xlsx"

\* str(pdf_file) of a file of the input folder (line 157)
PdfPath(name) == INPUT_DIR \o "\\" \o name

\* os.path.basename(path): what follows the last separator
Basename(path) ==
    LET seps == {i \in 1..Len(path) : Ch(path, i) \in {"\\", "/"}}
    IN  IF seps = {}
        THEN (IF Len(path) >= 2 /\ Ch(path, 2) = ":"
              THEN SubSeq(path, 3, Len(path)) ELSE path)
        ELSE SubSeq(path, (CHOOSE i \in seps : \A k \in seps : k <= i) + 1,
                    Len(path))

\* the file pdfplumber opens at a path: the document of that name in the
\* input folder
FileAt(files, path) ==
    files[CHOOSE j \in 1..Len(files) : PdfPath(files[j].name) = path]

\* "\n".join(page.extract_text() or "" for page in pdf.pages).lower()
PageText(pages) ==
    Lower(JoinSep([i \in 1..Len(pages) |->
                      IF CellTruthy(pages[i]) THEN pages[i] ELSE ""], "\n"))

\* text_lower of each PDF of the input folders (lines 75-76), tabulated
BatchTexts == [p \in {k.pages : k \in BatchKinds} |-> PageText(p)]

\* extractors.get(brand) of get_extractor: the class, or None
ExtractorClass(b) ==
    IF b = "amazon" THEN "AmazonExtractor"
    ELSE IF b = "flipkart" THEN "FlipkartExtractor"
    ELSE IF b = "zomato" THEN "ZomatoExtractor"
    ELSE IF b = "blinkit" THEN "BlinkitExtractor"
    ELSE IF b = "instamart" THEN "InstamartExtractor"
    ELSE None

\* the local extractor of process_invoice before line 87, and the None
\* that get_extractor returns, written as instances of no class
UnsetExtractor == [class |-> "unset", pdf_path |-> "unset"]
NoExtractor == [class |-> None, pdf_path |-> None]

\* get_extractor(pdf_path, brand): an instance of the class, which keeps
\* pdf_path (base.py line 10), or None
get_extractor(pdf_path, b) ==
    IF ExtractorClass(b) = None THEN NoExtractor
    ELSE [class |-> ExtractorClass(b), pdf_path |-> pdf_path]

\* out_path of process_invoice (lines 100-103)
OutPath(pdf_path, b) ==
    OUTPUT_DIR \o "\\"
        \o Replace(Basename(pdf_path), ".pdf", "_" \o b \o "_output.xlsx")

\* results.keys(), in the order of the dict literal
ResultKeys ==
    << "amazon", "flipkart", "zomato", "blinkit", "instamart", "failed" >>

NoResults == [k \in {ResultKeys[i] : i \in 1..6} |-> 0]

\* the tally that never counts a failure
TallyBrandsOnly(res, out) ==
    IF out # None
    THEN IF \E i \in 1..6 : Contains(out, "_" \o ResultKeys[i] \o "_")
         THEN LET i == CHOOSE i \in 1..6 :
                        /\ Contains(out, "_" \o ResultKeys[i] \o "_")
                        /\ \A j \in 1..(i - 1) :
                              ~Contains(out, "_" \o ResultKeys[j] \o "_")
              IN  [res EXCEPT ![ResultKeys[i]] = @ + 1]
         ELSE res
    ELSE res

\* the body of the batch loop after process_invoice returned out (lines
\* 158-164)
Tally(res, out) ==
    IF out # None
    THEN IF \E i \in 1..6 : Contains(out, "_" \o ResultKeys[i] \o "_")
         THEN LET i == CHOOSE i \in 1..6 :
                        /\ Contains(out, "_" \o ResultKeys[i] \o "_")
                        /\ \A j \in 1..(i - 1) :
                              ~Contains(out, "_" \o ResultKeys[j] \o "_")
              IN  [res EXCEPT ![ResultKeys[i]] = @ + 1]
         ELSE res
    ELSE [res EXCEPT !["failed"] = @ + 1]

\* a local of process_invoice that no statement has bound yet
Unset == [bound |-> FALSE]

\* header.dict() and the items of a document whose extraction succeeds
BatchHeader ==
    [invoice_number |-> PyStr("INV-1"), seller_name |-> PyStr("Acme"),
     order_date |-> PyNone, total_tax |-> PyFlt(FNan),
     total_amount |-> PyFlt(Cents(11250))]

BatchItems ==
    [columns |-> <<"Sl.No", "Description">>, rows |-> << <<1, "Tea">> >>]

\* BaseExtractor.extract() (base.py lines 22-30): the header, then the
\* items, then both returned; an exception of either gives {} and an empty
\* DataFrame
extract(doc) ==
    IF doc.extract = "header_raises"
    THEN [header |-> <<>>, items |-> EmptyFrame]
    ELSE IF doc.extract = "items_raise"
    THEN [header |-> <<>>, items |-> EmptyFrame]
    ELSE [header |-> BatchHeader, items |-> BatchItems]

\* the Field column of the template workbook
TemplateFields ==
    << "invoice_number", "seller_name", "order_date", "total_tax",
       "total_amount", "place_of_delivery" >>

\* template_df["Field"].map(header_dict).fillna("") (line 97): the value
\* of the field, and "" where the dict has no such key or holds None or
\* NaN under it
TemplateValues(hd) ==
    [i \in 1..Len(TemplateFields) |->
        IF TemplateFields[i] \notin DOMAIN hd THEN PyStr("")
        ELSE IF hd[TemplateFields[i]] = PyNone THEN PyStr("")
        ELSE IF hd[TemplateFields[i]].t = "float"
                  /\ hd[TemplateFields[i]].n.k = "nan" THEN PyStr("")
        ELSE hd[TemplateFields[i]]]

\* items_df.empty
FrameEmpty(df) == Len(df.columns) = 0 \/ Len(df.rows) = 0

\* the workbook the ExcelWriter block leaves at out_path (lines 105-108):
\* the sheet of the fields, and the sheet of the items when items_df is
\* not empty. The writer saves the book when the block is left, by its end
\* or by an exception: after items_df.to_excel raised the sheet of the
\* items is there with the cells written before the exception
Workbook(path, hd, df, raised) ==
    [path |-> path, values |-> TemplateValues(hd),
     sheets |-> IF ~FrameEmpty(df) THEN <<"Invoice_Fields", "Line_Items">>
                ELSE <<"Invoice_Fields">>,
     items |-> IF FrameEmpty(df) THEN "none"
               ELSE IF raised THEN "partial" ELSE "written"]

BatchIdle ==
    /\ pdf_files = <<>> /\ di = 0 /\ ppc = "idle" /\ ptext = ""
    /\ pbrand = "unset" /\ extractor = UnsetExtractor /\ header_dict = Unset
    /\ items_df = Unset /\ out_path = "unset" /\ outputs = {}
    /\ workbooks = {} /\ results = NoResults

BatchInit ==
    /\ pdf_files \in BatchFolders /\ di = 0 /\ ppc = "loop"
    /\ ptext = "" /\ pbrand = "unset" /\ extractor = UnsetExtractor
    /\ header_dict = Unset /\ items_df = Unset /\ out_path = "unset"
    /\ outputs = {} /\ workbooks = {} /\ results = NoResults

\* a process_invoice that starts with the values the previous call left
BatchTakeStale ==
    /\ ppc = "loop" /\ di < Len(pdf_files)
    /\ di' = di + 1
    /\ ppc' = "open"
    /\ UNCHANGED <<ptext, pbrand, extractor, header_dict, items_df, out_path>>
    /\ UNCHANGED <<pdf_files, outputs, workbooks, results, notBatch>>

\* for pdf_file in sorted(pdf_files): process_invoice is entered
BatchTake ==
    /\ ppc = "loop" /\ di < Len(pdf_files)
    /\ di' = di + 1
    /\ ppc' = "open"
    /\ ptext' = "" /\ pbrand' = "unset" /\ extractor' = UnsetExtractor
    /\ header_dict' = Unset /\ items_df' = Unset /\ out_path' = "unset"
    /\ UNCHANGED <<pdf_files, outputs, workbooks, results, notBatch>>

\* with pdfplumber.open(pdf_path) as pdf: ... (lines 74-76)
ProcessOpen ==
    /\ ppc = "open"
    /\ IF pdf_files[di].opens
       THEN /\ ptext' = BatchTexts[pdf_files[di].pages]
            /\ ppc' = "detect"
       ELSE /\ ppc' = "except"
            /\ UNCHANGED ptext
    /\ UNCHANGED <<pdf_files, di, pbrand, extractor, header_dict, items_df,
                   out_path, outputs, workbooks, results, notBatch>>

\* brand = detect_brand(text_lower); if not brand: return None (lines 79-84)
ProcessDetect ==
    /\ ppc = "detect"
    /\ pbrand' = detect_brand(ptext)
    /\ IF pbrand' = None
       THEN out_path' = None /\ ppc' = "returned"
       ELSE ppc' = "factory" /\ UNCHANGED out_path
    /\ UNCHANGED <<pdf_files, di, ptext, extractor, header_dict, items_df,
                   outputs, workbooks, results, notBatch>>

\* extractor = get_extractor(pdf_path, brand); if not extractor: return None
ProcessGetExtractor ==
    /\ ppc = "factory"
    /\ extractor' = get_extractor(PdfPath(pdf_files[di].name), pbrand)
    /\ IF extractor' = NoExtractor
       THEN out_path' = None /\ ppc' = "returned"
       ELSE ppc' = "extract" /\ UNCHANGED out_path
    /\ UNCHANGED <<pdf_files, di, ptext, pbrand, header_dict, items_df,
                   outputs, workbooks, results, notBatch>>

\* header_dict, items_df = extractor.extract() (line 93)
ProcessExtract ==
    /\ ppc = "extract"
    /\ header_dict' = extract(FileAt(pdf_files, extractor.pdf_path)).header
    /\ items_df' = extract(FileAt(pdf_files, extractor.pdf_path)).items
    /\ ppc' = "write"
    /\ UNCHANGED <<pdf_files, di, ptext, pbrand, extractor, out_path,
                   outputs, workbooks, results, notBatch>>

\* the workbook of the ExcelWriter block put among the files of the output
\* folder, in the place of a file of the same path
WithBook(books, w) == {v \in books : v.path # w.path} \cup {w}

\* the template is read and the workbook written; return out_path (lines
\* 96-121). An exception before line 105 leaves the folder as it is; one
\* inside the with block leaves the book the writer saves on its exit
ProcessWrite ==
    /\ ppc = "write"
    /\ IF pdf_files[di].writes = "template_raises"
       THEN /\ ppc' = "except"
            /\ UNCHANGED <<outputs, workbooks, out_path>>
       ELSE /\ outputs' =
                  outputs \cup {OutPath(PdfPath(pdf_files[di].name), pbrand)}
            /\ workbooks' =
                  WithBook(workbooks,
                           Workbook(OutPath(PdfPath(pdf_files[di].name),
                                            pbrand),
                                    header_dict, items_df,
                                    pdf_files[di].writes = "sheet_raises"))
            /\ IF pdf_files[di].writes = "sheet_raises"
                  /\ ~FrameEmpty(items_df)
               THEN ppc' = "except" /\ UNCHANGED out_path
               ELSE /\ out_path' =
                          OutPath(PdfPath(pdf_files[di].name), pbrand)
                    /\ ppc' = "returned"
    /\ UNCHANGED <<pdf_files, di, ptext, pbrand, extractor,
                   header_dict, items_df, results, notBatch>>

\* an exception of process_invoice that leaves the batch loop
ProcessExceptAborts ==
    /\ ppc = "except"
    /\ out_path' = None
    /\ ppc' = "aborted"
    /\ UNCHANGED <<pdf_files, di, ptext, pbrand, extractor,
                   header_dict, items_df, outputs, workbooks, results,
                   notBatch>>

\* except Exception: return None (lines 123-127)
ProcessExcept ==
    /\ ppc = "except"
    /\ out_path' = None
    /\ ppc' = "returned"
    /\ UNCHANGED <<pdf_files, di, ptext, pbrand, extractor,
                   header_dict, items_df, outputs, workbooks, results,
                   notBatch>>

\* if out_path: ... else: results["failed"] += 1 (lines 158-164)
BatchTally ==
    /\ ppc = "returned"
    /\ results' = Tally(results, out_path)
    /\ ppc' = "loop"
    /\ UNCHANGED <<pdf_files, di, ptext, pbrand, extractor,
                   header_dict, items_df, out_path, outputs, workbooks,
                   notBatch>>

BatchNext ==
    \/ BatchTake
    \/ ProcessOpen
    \/ ProcessDetect
    \/ ProcessGetExtractor
    \/ ProcessExtract
    \/ ProcessWrite
    \/ ProcessExcept
    \/ BatchTally

\* C10: a step that leaves detect_brand's answer None for the document in
\* hand has created no extractor, written no file and made process_invoice
\* return None; the batch loop's next step for it adds one to "failed" and
\* to no other counter.
BatchSkipsUnrecognized ==
    [][ /\ pbrand' = None =>
              /\ extractor' = UnsetExtractor
              /\ header_dict' = Unset
              /\ outputs' = outputs
              /\ out_path' = None
        /\ (pbrand = None /\ ppc = "returned") =>
              /\ results'["failed"] = results["failed"] + 1
              /\ \A k \in DOMAIN results \ {"failed"} :
                    results'[k] = results[k] ]_vars

\* an unrecognised document has been tallied
BatchUnrecognizedTallied ==
    /\ ppc = "loop" /\ di >= 1
    /\ pbrand = None /\ out_path = None /\ extractor = UnsetExtractor
    /\ results["failed"] >= 1

(***************************************************************************)
(* Instamart items (extractors_instamart.py)                               *)
(***************************************************************************)
MaxIRows == 3

\* safe_float of extractors_instamart.py: [ok |-> FALSE] is None
safe_float_instamart(val) ==
    PyFloat(Strip(RemoveCh(RemoveCh(Str(val), ","), "%")))

\* Qty of an item: safe_float(row[2]), a float or None
IQtyOf(f) == IF f.ok THEN PyFlt(f.v) ELSE PyNone

IQty(val) == IQtyOf(safe_float_instamart(val))

\* the tests of lines 212-224 on a row of a df that is ncols wide
IAccepts(row, ncols) ==
    /\ ncols >= 16
    /\ Strip(Str(Cell(row, 2))) # ""
    /\ ~Contains(Lower(Strip(Str(Cell(row, 2)))), "invoice value")
    /\ safe_float_instamart(Cell(row, 8)).ok
    /\ safe_float_instamart(Cell(row, 16)).ok

\* the item of lines 228-241
IItemOf(row, n, net_val, total_val) ==
    [ SlNo |-> n,
      Description |-> Replace(Strip(Str(Cell(row, 2))), "\n", " "),
      UnitPrice |-> "", Discount |-> "", Qty |-> IQty(Cell(row, 3)),
      NetAmount |-> net_val, TaxRate |-> "", TaxType |-> "GST",
      TaxAmount |-> Round2(FSub(total_val, net_val)),
      TotalAmount |-> total_val ]

IItem(row, n) ==
    IItemOf(row, n, safe_float_instamart(Cell(row, 8)).v,
            safe_float_instamart(Cell(row, 16)).v)

\* lines 228-245: the item appended, its amounts added
IWithItem(acc, it) ==
    [items |-> Append(acc.items, it),
     tax |-> FAdd(acc.tax, it.TaxAmount),
     total |-> FAdd(acc.total, it.TotalAmount)]

\* the rows of pd.DataFrame(items) (line 249): pandas infers the dtype of
\* each column, and a Qty column with a number in one item is float64 and
\* holds NaN where an item has None; with None in every item the column is
\* of dtype object and holds None
IFrameItems(items) ==
    [k \in 1..Len(items) |->
        IF items[k].Qty = PyNone
             /\ \E j \in 1..Len(items) : items[j].Qty # PyNone
        THEN [items[k] EXCEPT !.Qty = PyFlt(FNan)]
        ELSE items[k]]

RECURSIVE IRowsFrom(_, _, _, _)
\* the loop of lines 211-245 from the row i of df_items on, and the return
\* of line 249
IRowsFrom(rows, ncols, i, acc) ==
    IF i > Len(rows)
    THEN [exc |-> None, items |-> IFrameItems(acc.items),
          tax |-> Round2(acc.tax), total |-> Round2(acc.total)]
    ELSE IF IAccepts(rows[i], ncols)
    THEN IRowsFrom(rows, ncols, i + 1,
                   IWithItem(acc, IItem(rows[i], Len(acc.items) + 1)))
    ELSE IRowsFrom(rows, ncols, i + 1, acc)

\* a table the loop of line 198 takes: four rows at least, "description of
\* goods" in the third
IQualifiesDf(df) ==
    /\ Len(df) >= 4
    /\ Contains(Lower(JoinSep([i \in 1..Len(df[3]) |-> Str(df[3][i])], " ")),
                "description of goods")

IQualifies(table) == IQualifiesDf(DropNaRows(DataFrame(table)))

\* extract_items_and_totals(pdf_path) (lines 187-249), of the tables of
\* page 1
IWalkFrame(df, width) ==
    IRowsFrom(SubSeq(df, 4, Len(df)), width, 1,
              [items |-> <<>>, tax |-> Cents(0), total |-> Cents(0)])

IWalkTable(table) ==
    IWalkFrame(DropNaRows(DataFrame(table)), NumCols(table))

extract_items_and_totals_instamart(tables) ==
    IF \E t \in 1..Len(tables) : IQualifies(tables[t])
    THEN IWalkTable(tables[CHOOSE t \in 1..Len(tables) :
                              IQualifies(tables[t])
                                /\ \A u \in 1..(t - 1) : ~IQualifies(tables[u])])
    ELSE [exc |-> None, items |-> <<>>, tax |-> Cents(0), total |-> Cents(0)]

\* a row of the goods table: sixteen cells, or the first ten of them
IRow(desc, qty, net, total) ==
    [i \in 1..16 |->
        CASE i = 1 -> "1" [] i = 2 -> desc [] i = 3 -> qty [] i = 8 -> net
          [] i = 16 -> total [] OTHER -> None]
IHeaderRows ==
    << IRow("Tax Invoice", None, None, None),
       IRow(None, None, "Taxable", "Amount"),
       IRow("Description of Goods", "Qty", "Taxable Value", "Total") >>
IRowKinds ==
    { IRow("Amul Milk\n500ml", "2", "50.00", "52.50"),
      IRow("Bread", "two", "1,040.00", "1,092.00"),
      IRow("Eggs", "6", "abc", "63.00"),
      IRow("Curd", "1", "30.00", None),
      IRow("Invoice Value", None, "80.00", "84.00"),
      IRow(" ", "1", "10.00", "10.50"),
      IRow(None, None, "20.00", "21.00"),
      IRow("Ghee", "1", "12.00", "12.345") }
INarrow(table) == [r \in 1..Len(table) |-> SubSeq(table[r], 1, 10)]
IGoods == UNION { { IHeaderRows \o rows : rows \in [1..n -> IRowKinds] } :
                  n \in 0..MaxIRows }
ISummary == << <<"HSN", "Taxable", "CGST">>, <<"0401", "50.00", "1.25">> >>
ITables ==
    { <<>>, <<ISummary>> } \cup { <<t>> : t \in IGoods }
      \cup { <<ISummary, t>> : t \in IGoods }
      \cup { <<INarrow(t)>> : t \in IGoods }

INoRet ==
    [exc |-> "pending", items |-> <<>>, tax |-> Cents(0), total |-> Cents(0)]

InstamartIdle == idoc = <<>> /\ iret = INoRet /\ ipc = "idle"

InstamartInit == idoc \in ITables /\ iret = INoRet /\ ipc = "start"

\* extract_items_and_totals(pdf_path)
InstamartItems ==
    /\ ipc = "start"
    /\ iret' = extract_items_and_totals_instamart(idoc)
    /\ ipc' = "done"
    /\ UNCHANGED <<idoc, notInstamart>>

(***************************************************************************)
(* BaseExtractor.extract and the extractor classes (base.py)               *)
(***************************************************************************)
RECURSIVE ZRowsFrom(_, _, _, _)
\* the loop of extractors_zomato.py lines 95-125 from the data row i on,
\* acc holding line_items, net_value, tax_value and total_value
ZRowsFrom(h, rows, i, acc) ==
    IF i > Len(rows)
    THEN ZRet(None, acc.items, acc.net, acc.tax, acc.total)
    ELSE LET row == rows[i]
             at(keys) == ZLookup(h, row, find_col(h, keys), i)
             part == Lower(StrVal(at({"particular"})))
         IN  IF Contains(part, "total value")
             THEN IF find_col(h, {"net"}) = 0 \/ find_col(h, {"total"}) = 0
                  THEN ZRaise("KeyError")
                  ELSE LET n == safe_float_zomato(at({"net"}))
                           t == safe_float_zomato(at({"total"}))
                       IN  ZRowsFrom(h, rows, i + 1,
                                     [acc EXCEPT !.net = n, !.total = t,
                                                 !.tax = Round2(FSub(t, n))])
             ELSE IF Contains(part, "item(s) total")
             THEN ZRowsFrom(h, rows, i + 1, acc)
             ELSE IF Strip(part) # ""
             THEN IF ZItemOk(h)
                  THEN ZRowsFrom(h, rows, i + 1,
                           [acc EXCEPT !.items =
                               Append(@, ZItem(h, row, Len(@) + 1, i))])
                  ELSE ZRaise("KeyError")
             ELSE ZRowsFrom(h, rows, i + 1, acc)

\* extract_table_and_totals(pdf_path) (extractors_zomato.py lines 53-129)
\* as one call: the first table not passed over, in page and table order,
\* is walked, or has no header row
ZWalkTable(table) ==
    IF ZNoHeader(table) THEN ZRaise("IndexError")
    ELSE ZRowsFrom(ZHeaderLower(table), ZData(table), 1,
                   [items |-> <<>>, net |-> Cents(0),
                    tax |-> Cents(0), total |-> Cents(0)])

\* page and table order
Before(a, b) == a[1] < b[1] \/ (a[1] = b[1] /\ a[2] < b[2])
FirstOf(at) == CHOOSE a \in at : \A b \in at \ {a} : Before(a, b)
TableAt(doc, pt) == doc[pt[1]][pt[2]]

ZWalkFirst(doc, at) ==
    IF at = {} THEN ZRaise(None) ELSE ZWalkTable(TableAt(doc, FirstOf(at)))

extract_table_and_totals(doc) ==
    ZWalkFirst(doc,
               UNION { { <<p, t>> : t \in { u \in 1..Len(doc[p]) :
                                               \/ ZQualifies(doc[p][u])
                                               \/ ZNoHeader(doc[p][u]) } } :
                       p \in 1..Len(doc) })

\* one character of str.title() that follows no letter: its title case
TitleCh(c) ==
    IF c = "ß" THEN "Ss"
    ELSE IF c = "ÿ" THEN CapitalYDiaeresis
    ELSE IF c = "µ" THEN "Μ"
    ELSE IF \E i \in 1..Len(LowerChars) : Ch(LowerChars, i) = c
    THEN Ch(UpperChars, CHOOSE i \in 1..Len(LowerChars) : Ch(LowerChars, i) = c)
    ELSE c

\* s.title(): a letter after a character that is no letter is title-cased,
\* every other letter lower-cased
Title(s) ==
    JoinAll([i \in 1..Len(s) |->
                IF i = 1 \/ Ch(s, i - 1) \notin Letters THEN TitleCh(Ch(s, i))
                ELSE LowerCh(Ch(s, i))])

\* the keys of the item dicts of Zomato, Flipkart, Blinkit and Instamart, in
\* the order the dict literals give them
ItemColumns ==
    << "Sl.No", "Description", "UnitPrice", "Discount", "Qty", "NetAmount",
       "TaxRate", "TaxType", "TaxAmount", "TotalAmount" >>

\* pd.DataFrame(items) of a list of item dicts: no dict, no column
DataFrameOf(items) ==
    [columns |-> IF items = <<>> THEN <<>> ELSE ItemColumns, rows |-> items]

\* the rows of extractors_amazon.py line 219: those with a cell that is
\* not blank
AKeptRows(table) ==
    SelectSeq(table,
              LAMBDA r : \E i \in 1..Len(r) :
                            CellTruthy(r[i]) /\ Strip(r[i]) # "")

\* the header test of lines 224-230
AIsItemTable(table) ==
    LET header == [i \in 1..Len(table[1]) |->
                      IF CellTruthy(table[1][i]) THEN Lower(table[1][i])
                      ELSE ""]
    IN  /\ \E i \in 1..Len(header) : Contains(header[i], "description")
        /\ \E i \in 1..Len(header) :
              Contains(header[i], "qty") \/ Contains(header[i], "quantity")
        /\ \E i \in 1..Len(header) : Contains(header[i], "total")

\* the DataFrame of lines 231-241: rows shorter than the widest are
\* filled with None
AItemFrame(table) ==
    [columns |->
        [i \in 1..Len(table[1]) |->
            IF CellTruthy(table[1][i])
            THEN Title(Replace(Lower(table[1][i]), " ", "_"))
            ELSE "Col_" \o ToString(i - 1)],
     rows |->
        DataFrame([r \in 1..(Len(table) - 1) |->
                      [i \in 1..Len(table[r + 1]) |->
                          IF CellTruthy(table[r + 1][i])
                          THEN Strip(table[r + 1][i])
                          ELSE ""]])]

\* pd.DataFrame(rows, columns=clean_header) (line 241) raises ValueError
\* when there are rows and the widest has not as many cells as the header
AFrameOf(table) ==
    IF Len(table) > 1 /\ NumCols(Tail(table)) # Len(table[1])
    THEN [exc |-> "ValueError", df |-> EmptyFrame]
    ELSE [exc |-> None, df |-> AItemFrame(table)]

\* extract_item_table_amazon(pdf_path) (extractors_amazon.py lines 211-243):
\* the frame of the first table, in page and table order, that has a row
\* left and the three header words, or the exception raised
AItemTableOk(rows) == rows # <<>> /\ AIsItemTable(rows)

AFrameFirst(doc, at) ==
    IF at = {} THEN [exc |-> None, df |-> EmptyFrame]
    ELSE AFrameOf(AKeptRows(TableAt(doc, FirstOf(at))))

extract_item_table_amazon(doc) ==
    AFrameFirst(doc,
                UNION { { <<p, t>> : t \in { u \in 1..Len(doc[p]) :
                                         AItemTableOk(AKeptRows(doc[p][u])) } } :
                        p \in 1..Len(doc) })

\* the fields the text rules of a header extraction give (extract_with_rules
\* of Amazon and Zomato, extract_fields of Flipkart, extract_header of
\* Instamart), when they raise nothing
EData == [invoice_number |-> "INV-1", seller_name |-> "Acme Foods"]

\* an extract_header that assigns the figures of the walk crosswise
EHeaderSwapped(rules, walk) ==
    IF rules = "raises" THEN [exc |-> "Exception", rec |-> <<>>]
    ELSE IF walk.exc # None THEN [exc |-> walk.exc, rec |-> <<>>]
    ELSE InvoiceData(BFieldMap(EData, walk.total, walk.tax))

\* extract_header of AmazonExtractor, ZomatoExtractor and
\* InstamartExtractor: the text rules, then the table walk, then
\* data["total_tax"], data["total_amount"] and InvoiceData(**data)
EHeader(rules, walk) ==
    IF rules = "raises" THEN [exc |-> "Exception", rec |-> <<>>]
    ELSE IF walk.exc # None THEN [exc |-> walk.exc, rec |-> <<>>]
    ELSE InvoiceData(BFieldMap(EData, walk.tax, walk.total))

\* the table walk of a vendor's extract_header: its exception or its tax
\* and total figures
EFigures(w) == [exc |-> w.exc, tax |-> w.tax, total |-> w.total]

EWalk(v, doc) ==
    CASE v = "amazon" -> extract_totals_amazon(doc)
      [] v = "zomato" -> EFigures(extract_table_and_totals(doc))
      [] v = "instamart" -> EFigures(extract_items_and_totals_instamart(doc))

\* self.extract_header() of the extractor of vendor v
EHeaderOf(v, doc, rules) ==
    CASE v = "blinkit" -> BlinkitExtractor_extract_header(doc)
      [] v = "flipkart" ->
            IF rules = "raises" THEN [exc |-> "Exception", rec |-> <<>>]
            ELSE InvoiceData([k \in DOMAIN EData |-> PyStr(EData[k])])
      [] OTHER -> EHeader(rules, EWalk(v, doc))

\* pd.DataFrame(line_items) of what the table walk gave
EFrameOf(w) == [exc |-> w.exc, df |-> DataFrameOf(w.items)]

\* self.extract_line_items() of the extractor of vendor v
EItemsOf(v, doc) ==
    CASE v = "amazon" -> extract_item_table_amazon(doc)
      [] v = "flipkart" ->
            [exc |-> None, df |-> DataFrameOf(extract_line_items_flipkart(doc))]
      [] v = "zomato" -> EFrameOf(extract_table_and_totals(doc))
      [] v = "blinkit" -> EFrameOf(BlinkitExtractor_extract_line_items(doc))
      [] v = "instamart" -> EFrameOf(extract_items_and_totals_instamart(doc))

EVendors == {"amazon", "flipkart", "zomato", "blinkit", "instamart"}

\* the documents of a vendor; of Zomato and Instamart those of at most one
\* page or table
EDocs(v) ==
    CASE v = "amazon" -> ADocs
      [] v = "flipkart" -> FDocs
      [] v = "zomato" -> {d \in ZDocs : Len(d) <= 1}
      [] v = "blinkit" -> BTables
      [] v = "instamart" -> {d \in ITables : Len(d) <= 1}

ENoHdr == [exc |-> "pending", rec |-> <<>>]
ENoItems == [exc |-> "pending", df |-> EmptyFrame]
ENoRet == [header |-> <<>>, items |-> EmptyFrame]

ExtractIdle ==
    /\ evendor = "none" /\ edoc = <<>> /\ erules = "ok" /\ ehdr = ENoHdr
    /\ eitems = ENoItems /\ eret = ENoRet /\ ecalls = <<>> /\ epc = "idle"

ExtractInit ==
    /\ evendor \in EVendors /\ edoc \in EDocs(evendor)
    /\ erules \in (IF evendor = "blinkit" THEN {"ok"} ELSE {"ok", "raises"})
    /\ ehdr = ENoHdr /\ eitems = ENoItems /\ eret = ENoRet
    /\ ecalls = <<>> /\ epc = "start"

\* header = self.extract_header() (line 25)
ExtractHeader ==
    /\ epc = "start"
    /\ ecalls' = Append(ecalls, "extract_header")
    /\ ehdr' = EHeaderOf(evendor, edoc, erules)
    /\ epc' = IF ehdr'.exc = None THEN "items" ELSE "raised"
    /\ UNCHANGED <<evendor, edoc, erules, eitems, eret, notExtract>>

\* items = self.extract_line_items() (line 26)
ExtractLineItems ==
    /\ epc = "items"
    /\ ecalls' = Append(ecalls, "extract_line_items")
    /\ eitems' = EItemsOf(evendor, edoc)
    /\ epc' = IF eitems'.exc = None THEN "return" ELSE "raised"
    /\ UNCHANGED <<evendor, edoc, erules, ehdr, eret, notExtract>>

\* return header.dict(), items (line 27)
ExtractReturn ==
    /\ epc = "return"
    /\ eret' = [header |-> Dict(ehdr.rec), items |-> eitems.df]
    /\ epc' = "done"
    /\ UNCHANGED <<evendor, edoc, erules, ehdr, eitems, ecalls, notExtract>>

\* except Exception: return {}, pd.DataFrame() (lines 28-30)
ExtractExcept ==
    /\ epc = "raised"
    /\ eret' = [header |-> <<>>, items |-> EmptyFrame]
    /\ epc' = "done"
    /\ UNCHANGED <<evendor, edoc, erules, ehdr, eitems, ecalls, notExtract>>

ExtractNext ==
    \/ ExtractHeader
    \/ ExtractLineItems
    \/ ExtractReturn
    \/ ExtractExcept

\* the field map holds the figures of the walk
EFiguresIn(header, w) ==
    header.total_tax = PyFlt(w.tax) /\ header.total_amount = PyFlt(w.total)

\* C11: extract() calls extract_header first and extract_line_items second,
\* and never calls extract_line_items when extract_header raised; for
\* Amazon, Zomato, Blinkit and Instamart the total_tax and total_amount of
\* the field map returned are the tax and total figures the vendor's table
\* walk computes for the document.
ExtractHeaderThenItems ==
    /\ ecalls \in { <<>>, <<"extract_header">>,
                    <<"extract_header", "extract_line_items">> }
    /\ ehdr.exc \notin {None, "pending"} =>
          ecalls = <<"extract_header">> /\ eitems = ENoItems
    /\ (epc = "done" /\ eret.header # <<>> /\ evendor # "flipkart") =>
          /\ ecalls = <<"extract_header", "extract_line_items">>
          /\ EFiguresIn(eret.header,
                        IF evendor = "blinkit"
                        THEN extract_items_and_totals_blinkit(DataFrame(edoc[1]))
                        ELSE EWalk(evendor, edoc))

\* a Zomato document with different tax and total figures was extracted
ExtractZomatoTotalsSeen ==
    /\ epc = "done" /\ evendor = "zomato" /\ eret.header # <<>>
    /\ eret.header.total_tax = PyFlt(Cents(913))
    /\ eret.header.total_amount = PyFlt(Dec(189126, 0 - 3))
    /\ Len(eret.items.rows) >= 1

\* C12: whenever extract() returns a field map and a line-item table that has
\* rows (the table main.py writes to the Line_Items sheet), the table has
\* exactly the ten named columns, for every vendor.
ExtractItemsHaveTenColumns ==
    (epc = "done" /\ eret.header # <<>> /\ eret.items.rows # <<>>) =>
        eret.items.columns = ItemColumns

(***************************************************************************)
(* The PDF handles of a batch: every "with pdfplumber.open(...)" block     *)
(* that processing a document enters (main.py, base.py, extractors_*.py)   *)
(***************************************************************************)
MaxHDocs == 2

\* a with block: the file and line of its "with pdfplumber.open", and
\* whether its body has a return statement
WithAt(file, line, returns) ==
    [file |-> file, line |-> line, returns |-> returns]

\* the with blocks process_invoice runs through for a document detected as
\* brand b, in order: its own (main.py line 74), then those of the
\* extractor's extract_header and extract_line_items
WithBlocks(b) ==
    << WithAt("main.py", 74, FALSE) >> \o
    ( CASE b = "amazon" ->
              << WithAt("extractors_amazon.py", 56, FALSE),
                 WithAt("extractors_amazon.py", 16, TRUE),
                 WithAt("extractors_amazon.py", 213, TRUE) >>
        [] b = "flipkart" ->
              << WithAt("extractors_flipkart.py", 13, FALSE),
                 WithAt("extractors_flipkart.py", 137, TRUE) >>
        [] b = "zomato" ->
              << WithAt("base.py", 73, FALSE),
                 WithAt("extractors_zomato.py", 58, TRUE),
                 WithAt("extractors_zomato.py", 58, TRUE) >>
        [] b = "blinkit" ->
              << WithAt("base.py", 90, FALSE),
                 WithAt("base.py", 101, FALSE) >>
        [] b = "instamart" ->
              << WithAt("extractors_instamart.py", 75, TRUE),
                 WithAt("extractors_instamart.py", 194, FALSE),
                 WithAt("extractors_instamart.py", 194, FALSE) >>
        [] OTHER -> << >> )

\* the brands detect_brand answers for the documents of a batch
HBrands == {"amazon", "flipkart", "zomato", "blinkit", "instamart", None}
HBatches == UNION { [1..n -> HBrands] : n \in 1..MaxHDocs }

\* a with statement that closes only when its body ends without exception
ExitWithUnlessRaised(open, h, outcome) ==
    IF outcome = "raise" THEN open ELSE open \ {h}

\* leaving a with block: PDF.__exit__ closes the handle h, whatever way the
\* body ended ("fall", "return" or "raise")
ExitWith(open, h, outcome) == open \ {h}

HandlesIdle ==
    /\ hdocs = <<>> /\ hn = 0 /\ hs = 0 /\ hopen = {} /\ hout = "none"
    /\ hpc = "idle"

HandlesInit ==
    /\ hdocs \in HBatches /\ hn = 0 /\ hs = 0 /\ hopen = {}
    /\ hout = "none" /\ hpc = "loop"

\* for pdf_file in sorted(pdf_files): process_invoice(pdf_file, ...)
HandlesTake ==
    /\ hpc = "loop" /\ hn < Len(hdocs)
    /\ hn' = hn + 1 /\ hs' = 1 /\ hpc' = "enter"
    /\ UNCHANGED <<hdocs, hopen, hout, notHandles>>

\* pdfplumber.open(pdf_path) gives a handle
WithOpen ==
    /\ hpc = "enter"
    /\ hopen' = hopen \cup {<<hn, hs>>}
    /\ hpc' = "body"
    /\ UNCHANGED <<hdocs, hn, hs, hout, notHandles>>

\* pdfplumber.open(pdf_path) raises: there is no handle
WithOpenRaises ==
    /\ hpc = "enter"
    /\ hout' = "open raised"
    /\ hpc' = "raised"
    /\ UNCHANGED <<hdocs, hn, hs, hopen, notHandles>>

\* the body of the with block runs to its end, returns or raises
WithBody ==
    /\ hpc = "body"
    /\ \E o \in {"fall", "raise"} \cup
                (IF WithBlocks(hdocs[hn])[hs].returns THEN {"return"} ELSE {}) :
          hout' = o
    /\ hpc' = "exit"
    /\ UNCHANGED <<hdocs, hn, hs, hopen, notHandles>>

\* the with statement is left: __exit__ runs
WithExit ==
    /\ hpc = "exit"
    /\ hopen' = ExitWith(hopen, <<hn, hs>>, hout)
    /\ hpc' = IF hout = "raise" THEN "raised" ELSE "next"
    /\ UNCHANGED <<hdocs, hn, hs, hout, notHandles>>

\* what follows a with block that did not raise: the next one of the
\* document; or no further one, when that was the last, or when a
\* statement between the two raises (base.py lines 47-51, 62-63, 75-79,
\* 94-98, 114-117; main.py lines 79-93) and extract() or process_invoice
\* catches the exception
WithNext ==
    /\ hpc = "next"
    /\ \/ /\ hs < Len(WithBlocks(hdocs[hn]))
          /\ hs' = hs + 1 /\ hpc' = "enter"
       \/ /\ hs < Len(WithBlocks(hdocs[hn]))
          /\ hpc' = "returned" /\ UNCHANGED hs
       \/ /\ hs = Len(WithBlocks(hdocs[hn]))
          /\ hpc' = "returned" /\ UNCHANGED hs
    /\ UNCHANGED <<hdocs, hn, hopen, hout, notHandles>>

\* the exception reaches "except Exception" of extract() (base.py line 28)
\* or of process_invoice (main.py line 123); no further with block of the
\* document is entered
HandlesExcept ==
    /\ hpc = "raised"
    /\ hpc' = "returned"
    /\ UNCHANGED <<hdocs, hn, hs, hopen, hout, notHandles>>

\* process_invoice returned to the batch loop
HandlesReturn ==
    /\ hpc = "returned"
    /\ hpc' = "loop"
    /\ UNCHANGED <<hdocs, hn, hs, hopen, hout, notHandles>>

HandlesNext ==
    \/ HandlesTake
    \/ WithOpen
    \/ WithOpenRaises
    \/ WithBody
    \/ WithExit
    \/ WithNext
    \/ HandlesExcept
    \/ HandlesReturn

\* C13: a PDF handle is open only inside the with block that opened it: it
\* is closed once the block is left, by falling through, by a return or by
\* an exception, so when the batch loop takes the next document no handle
\* is open, and no handle of an earlier document is ever open.
HandlesClosedOnEveryExit ==
    /\ hpc \notin {"body", "exit"} => hopen = {}
    /\ hpc \in {"body", "exit"} => hopen = {<<hn, hs>>}
    /\ \A h \in hopen : h[1] = hn

\* the second document begins after a with block of the first one was left
\* by an exception
HandlesSecondAfterRaise ==
    /\ hn = 2 /\ hs = 1 /\ hpc = "enter" /\ hout = "raise" /\ hopen = {}

(***************************************************************************)
(* Claims about the batch loop as a whole (main.py)                        *)
(***************************************************************************)
\* the number of documents the tally has counted
CTallied(res) ==
    res["amazon"] + res["flipkart"] + res["zomato"] + res["blinkit"]
        + res["instamart"] + res["failed"]

\* C14: the batch loop takes the documents one at a time, in order, the
\* next one only when the one in hand has been finished and tallied; an
\* exception in a document makes process_invoice return None for it and
\* the loop goes on; in the end every document has been taken and tallied
\* exactly once.
BatchEveryDocumentOnce ==
    /\ [][ /\ pdf_files' = pdf_files
           /\ di' \in {di, di + 1}
           /\ di' = di + 1 =>
                 /\ ppc = "loop" /\ ppc' = "open"
                 /\ CTallied(results) = di
           /\ ppc = "except" =>
                 /\ out_path' = None /\ ppc' = "returned"
                 /\ outputs' = outputs /\ di' = di ]_vars
    /\ <>[](/\ ppc = "loop" /\ di = Len(pdf_files)
            /\ CTallied(results) = Len(pdf_files))

\* the whole batch is done; its first document raised when opened and its
\* second one was written
BatchDoneAfterFailure ==
    /\ ppc = "loop" /\ di = 2 /\ Len(pdf_files) = 2
    /\ ~pdf_files[1].opens
    /\ results["failed"] = 1 /\ outputs # {}

(***************************************************************************)
(* Geometric text clusterer (extractors_amazon.py, extractors_flipkart.py) *)
(***************************************************************************)
MaxGlyphs == 3

\* a glyph of page.chars
Glyph(x0, x1, top, bottom, t) ==
    [x0 |-> x0, x1 |-> x1, top |-> top, bottom |-> bottom, text |-> t]

\* twice the centre of a glyph: x = (x0 + x1) / 2, y = (top + bottom) / 2
CX2(g) == g.x0 + g.x1
CY2(g) == g.top + g.bottom

RECURSIVE SumOver(_, _)
\* the sum of v[i] over the indices i of s
SumOver(v, s) ==
    IF s = {} THEN 0
    ELSE LET i == CHOOSE i \in s : TRUE IN v[i] + SumOver(v, s \ {i})

\* n * n times the variance of the values v: points.std(axis=0) squared is
\* this over n * n
Var2(v) ==
    LET n == Len(v)
    IN  n * SumOver([i \in 1..n |-> v[i] * v[i]], 1..n)
          - SumOver(v, 1..n) * SumOver(v, 1..n)

\* (points - mean) / std has a NaN: an axis of zero deviation gives 0 / 0
\* for every point
HasNaN(chars) ==
    \/ Var2([i \in 1..Len(chars) |-> CX2(chars[i])]) = 0
    \/ Var2([i \in 1..Len(chars) |-> CY2(chars[i])]) = 0

\* the DBSCAN neighbourhood of the normalised points i and j: their
\* distance is at most eps. Joint normalisation with eps = 0.1, or, for
\* the Flipkart pages of fewer than six columns, x * 3 and eps = 0.12
Near(chars, wide, i, j) ==
    LET n == Len(chars)
        vx == Var2([k \in 1..n |-> CX2(chars[k])])
        vy == Var2([k \in 1..n |-> CY2(chars[k])])
        dx == CX2(chars[i]) - CX2(chars[j])
        dy == CY2(chars[i]) - CY2(chars[j])
    IN  IF wide
        THEN n * n * (dx * dx * vy + dy * dy * vx) <= (vx * vy) \div 100
        ELSE n * n * (9 * dx * dx * vy + dy * dy * vx)
                <= (9 * vx * vy) \div 625

RECURSIVE Grow(_, _, _)
\* the cluster of the points of set: with min_samples = 1 every point is a
\* core point, so a cluster is a connected component
Grow(chars, wide, set) ==
    LET next == set \cup {j \in 1..Len(chars) :
                             \E i \in set : Near(chars, wide, i, j)}
    IN  IF next = set THEN set ELSE Grow(chars, wide, next)

RECURSIVE Clusters(_, _, _)
\* clusters.values(): the clusters in the order of their first glyph
Clusters(chars, wide, left) ==
    IF left = {} THEN <<>>
    ELSE LET i == CHOOSE i \in left : \A j \in left : i <= j
             c == Grow(chars, wide, {i})
         IN  <<c>> \o Clusters(chars, wide, left \ c)

RECURSIVE SortedGroup(_, _)
\* sorted(group, key=lambda c: (c["top"], c["x0"])): stable
SortedGroup(chars, group) ==
    IF group = {} THEN <<>>
    ELSE LET first ==
                 CHOOSE i \in group : \A j \in group :
                     \/ chars[i].top < chars[j].top
                     \/ /\ chars[i].top = chars[j].top
                        /\ chars[i].x0 < chars[j].x0
                     \/ /\ chars[i].top = chars[j].top
                        /\ chars[i].x0 = chars[j].x0
                        /\ i <= j
         IN  <<chars[first]>> \o SortedGroup(chars, group \ {first})

RECURSIVE GroupText(_, _)
\* the text of a sorted group: a blank where top moves by more than 3
GroupText(group, k) ==
    IF k > Len(group) THEN ""
    ELSE LET gap == group[k].top - group[k - 1].top
             sep == IF k > 1 /\ (gap > 3 \/ gap < -3) THEN " " ELSE ""
         IN  sep \o group[k].text \o GroupText(group, k + 1)

\* the blocks of a page of glyphs: the cluster texts longer than 30
PageBlocks(chars, wide) ==
    LET cs == Clusters(chars, wide, 1..Len(chars))
        texts == [c \in 1..Len(cs) |->
                     Strip(GroupText(SortedGroup(chars, cs[c]), 1))]
    IN  SelectSeq(texts, LAMBDA t : Len(t) > 30)

\* whether the page gets the joint normalisation: always in the Amazon
\* clusterer, with max_cols >= 6 in the Flipkart one
IsWide(variant, page) == variant = "amazon" \/ page.max_cols >= 6

\* the glyphs of the pages
CGlyphs ==
    { Glyph(0, 2, 0, 2, "A"), Glyph(2, 4, 0, 2, "B"),
      Glyph(0, 2, 2, 6, "C"), Glyph(6, 10, 8, 12, "D") }

CPages ==
    UNION { { [chars |-> c, max_cols |-> m] : c \in [1..n -> CGlyphs] } :
              n \in 0..MaxGlyphs, m \in {0, 6} }

\* the documents: a page, or a page after an empty page or after a page of
\* two glyphs
CDocs ==
    LET lead == { [chars |-> <<>>, max_cols |-> 0],
                  [chars |-> << Glyph(0, 2, 0, 2, "A"),
                                Glyph(6, 10, 8, 12, "D") >>,
                   max_cols |-> 0] }
    IN  { <<p>> : p \in CPages } \cup { <<q, p>> : q \in lead, p \in CPages }

CRet(exc, t) == [exc |-> exc, text |-> t]
CNoRet == CRet("pending", "")

ClusterIdle ==
    /\ cvariant = "none" /\ cdoc = <<>> /\ cp = 0 /\ blocks = <<>>
    /\ cret = CNoRet /\ cpc = "idle"

ClusterInit ==
    /\ cvariant \in {"amazon", "flipkart"} /\ cdoc \in CDocs
    /\ cvariant = "amazon" => \A i \in 1..Len(cdoc) : cdoc[i].max_cols = 0
    /\ cp = 0 /\ blocks = <<>> /\ cret = CNoRet /\ cpc = "pages"

\* for page in pdf.pages: if not chars: continue
ClusterSkipPage ==
    /\ cpc = "pages" /\ cp < Len(cdoc)
    /\ cdoc[cp + 1].chars = <<>>
    /\ cp' = cp + 1
    /\ UNCHANGED <<cvariant, cdoc, blocks, cret, cpc, notCluster>>

\* a page whose normalised points are numbers: DBSCAN labels them and the
\* long cluster texts are appended to blocks
ClusterPage ==
    /\ cpc = "pages" /\ cp < Len(cdoc)
    /\ cdoc[cp + 1].chars # <<>>
    /\ ~HasNaN(cdoc[cp + 1].chars)
    /\ cp' = cp + 1
    /\ blocks' = blocks \o PageBlocks(cdoc[cp + 1].chars,
                                      IsWide(cvariant, cdoc[cp + 1]))
    /\ UNCHANGED <<cvariant, cdoc, cret, cpc, notCluster>>

\* a page whose normalised points hold a NaN: DBSCAN(...).fit_predict
\* validates its input and raises ValueError
ClusterPageRaises ==
    /\ cpc = "pages" /\ cp < Len(cdoc)
    /\ cdoc[cp + 1].chars # <<>>
    /\ HasNaN(cdoc[cp + 1].chars)
    /\ cp' = cp + 1
    /\ cret' = CRet("ValueError", "")
    /\ cpc' = "done"
    /\ UNCHANGED <<cvariant, cdoc, blocks, notCluster>>

\* return " | ".join(blocks)
ClusterReturn ==
    /\ cpc = "pages" /\ cp = Len(cdoc)
    /\ cret' = CRet(None, JoinSep(blocks, " | "))
    /\ cpc' = "done"
    /\ UNCHANGED <<cvariant, cdoc, cp, blocks, notCluster>>

ClusterNext ==
    \/ ClusterSkipPage
    \/ ClusterPage
    \/ ClusterPageRaises
    \/ ClusterReturn

\* C15: on a document whose pages all have fewer than two glyphs the
\* clusterer, Amazon's or Flipkart's, raises nothing: it returns a text of
\* no block or one block.
ClusterFewGlyphsNeverRaises ==
    (cpc = "done" /\ \A i \in 1..Len(cdoc) : Len(cdoc[i].chars) < 2) =>
        /\ cret.exc = None
        /\ ~Contains(cret.text, " | ")

\* lines 96-108 raise for the document: the template cannot be read, or
\* the sheet of its items cannot be written
CWriteRaises(doc) ==
    \/ doc.writes = "template_raises"
    \/ doc.writes = "sheet_raises" /\ doc.extract = "fields"

\* the counter a document belongs under: "failed" when it cannot be opened,
\* is of no brand or cannot be written, else the brand detected in its text
CCounterOf(doc) ==
    IF ~doc.opens \/ CWriteRaises(doc) THEN "failed"
    ELSE IF detect_brand(BatchTexts[doc.pages]) = None THEN "failed"
    ELSE detect_brand(BatchTexts[doc.pages])

\* C16: whenever the batch loop is at its head, each counter of the tally
\* is the number of documents processed so far that belong under it:
\* "failed" for those without output, the detected brand for the others.
BatchTallyByDetectedBrand ==
    ppc = "loop" =>
        \A k \in DOMAIN results :
            results[k] =
                Cardinality({j \in 1..di : CCounterOf(pdf_files[j]) = k})

\* the rows of a Blinkit grid the item scan goes over before it stops: from
\* the fixed first item row to the row before the first one whose first
\* cell is "total" when trimmed and lowered
CBlinkitScanned(df) ==
    LET scan == (FIRST_ITEM_ROW + 1)..Len(df)
        tot == {i \in scan : df[i][1] # None
                                 /\ Lower(Strip(df[i][1])) = "total"}
    IN  {i \in scan : \A t \in tot : i < t}

\* the first total row of a Blinkit grid, 0 when there is none
CBlinkitTotalRow(df) ==
    LET tot == {i \in (FIRST_ITEM_ROW + 1)..Len(df) :
                   df[i][1] # None /\ Lower(Strip(df[i][1])) = "total"}
    IN  IF tot = {} THEN 0 ELSE CHOOSE t \in tot : \A u \in tot : t <= u

\* the items returned are the rows of the grid df numbered in rows, in
\* order, and the totals are those of the row t, rounded to two decimals
CBlinkitAgrees(df, ret, rows, t) ==
    /\ Len(ret.items) = Cardinality(rows)
    /\ \A n \in 1..Len(ret.items) :
          \E i \in rows :
             /\ Cardinality({j \in rows : j <= i}) = n
             /\ ret.items[n].SlNo = n
             /\ ret.items[n].Description = clean(df[i][3])
             /\ ret.items[n].TotalAmount = safe_float_blinkit(df[i][14])
    /\ ret.header.total_tax =
          PyFlt(IF t = 0 THEN Cents(0)
                ELSE Round2(FAdd(safe_float_blinkit(df[t][9]),
                                 safe_float_blinkit(df[t][11]))))
    /\ ret.header.total_amount =
          PyFlt(IF t = 0 THEN Cents(0)
                ELSE Round2(safe_float_blinkit(df[t][14])))

\* C17: when the Blinkit extractor has returned a field map, the line items
\* are the rows whose cleaned description is not empty between the fixed
\* first item row and the first total row, in order, and the totals are
\* those read from the fixed columns of that total row, or 0.0 when the
\* grid has no total row.
BlinkitStopsAtTotalRow ==
    (kpc = "done" /\ kret.header # <<>>) =>
        CBlinkitAgrees(ktables[1], kret,
                       {i \in CBlinkitScanned(ktables[1]) :
                           clean(ktables[1][i][3]) # ""},
                       CBlinkitTotalRow(ktables[1]))

\* a grid whose first item row is a total row, written " TOTAL", with an
\* item row below it, was extracted: no item, the totals of that row
BlinkitTotalRowFirstSeen ==
    /\ kpc = "done" /\ kret.header # <<>>
    /\ Len(ktables[1]) > FIRST_ITEM_ROW + 1
    /\ ktables[1][FIRST_ITEM_ROW + 1][1] = " TOTAL\n"
    /\ clean(ktables[1][FIRST_ITEM_ROW + 2][3]) # ""
    /\ kret.items = <<>>
    /\ kret.header.total_amount = PyFlt(Cents(10500))

\* the rows below the header of the "description of goods" table of an
\* Instamart page, and its width; no row when the page has no such table
CGoodsRows(tables) ==
    LET ts == {t \in 1..Len(tables) : IQualifies(tables[t])}
    IN  IF ts = {} THEN [rows |-> <<>>, ncols |-> 0]
        ELSE LET t == CHOOSE t \in ts : \A u \in ts : t <= u
                 df == DropNaRows(DataFrame(tables[t]))
             IN  [rows |-> SubSeq(df, 4, Len(df)),
                  ncols |-> NumCols(tables[t])]

\* the rows the claim C18 calls accepted: the minimum column count, a
\* description that is not empty (a cell that is there and is not blank)
\* and holds no "invoice value", a net and a total cell that parse
CAcceptedRows(g) ==
    {i \in 1..Len(g.rows) :
        /\ g.ncols >= 16
        /\ g.rows[i][2] # None
        /\ Strip(g.rows[i][2]) # ""
        /\ ~Contains(Lower(g.rows[i][2]), "invoice value")
        /\ safe_float_instamart(g.rows[i][8]).ok
        /\ safe_float_instamart(g.rows[i][16]).ok}

RECURSIVE FSum(_, _)
\* v[1] + ... + v[n], added to 0.0 in this order
FSum(v, n) == IF n = 0 THEN Cents(0) ELSE FAdd(FSum(v, n - 1), v[n])

\* the line items returned are the accepted rows of the goods table, in
\* order, with the amounts of their cells
CItemsAreAccepted(g, acc) ==
    /\ iret.exc = None
    /\ Len(iret.items) = Cardinality(acc)
    /\ \A k \in 1..Len(iret.items) :
          \E i \in acc :
             /\ Cardinality({j \in acc : j <= i}) = k
             /\ iret.items[k].SlNo = k
             /\ iret.items[k].NetAmount = safe_float_instamart(g.rows[i][8]).v
             /\ iret.items[k].TotalAmount =
                   safe_float_instamart(g.rows[i][16]).v
             /\ iret.items[k].TaxAmount =
                   Round2(FSub(iret.items[k].TotalAmount,
                               iret.items[k].NetAmount))

\* C18 as stated: the line items Instamart's extract_items_and_totals
\* returns are exactly the accepted rows of the goods table, in order;
\* total_amount is the sum of their TotalAmount and total_tax the sum of
\* their TaxAmount, whatever the rows passed over hold.
InstamartAcceptsAndSums ==
    ipc = "done" =>
        /\ CItemsAreAccepted(CGoodsRows(idoc), CAcceptedRows(CGoodsRows(idoc)))
        /\ iret.total =
              FSum([k \in 1..Len(iret.items) |-> iret.items[k].TotalAmount],
                   Len(iret.items))
        /\ iret.tax =
              FSum([k \in 1..Len(iret.items) |-> iret.items[k].TaxAmount],
                   Len(iret.items))

\* the rows whose description text, str() of the cell, is not empty and
\* holds no "invoice value", and whose net and total cells parse
CRowsWithAmounts(g) ==
    {i \in 1..Len(g.rows) :
        /\ g.ncols >= 16
        /\ Strip(Str(g.rows[i][2])) # ""
        /\ ~Contains(Lower(Str(g.rows[i][2])), "invoice value")
        /\ safe_float_instamart(g.rows[i][8]).ok
        /\ safe_float_instamart(g.rows[i][16]).ok}

\* C19 (Instamart): a row of the goods table whose quantity, net or total
\* cell fails to parse is left out of the line items: the items are the
\* rows with a description whose quantity, net and total cells all parse.
InstamartParseFailureExcludesRow ==
    ipc = "done" =>
        LET g == CGoodsRows(idoc)
        IN  Len(iret.items) =
               Cardinality({i \in CRowsWithAmounts(g) :
                               safe_float_instamart(g.rows[i][3]).ok})

\* what process_invoice gives for a document processed alone, the only
\* file of its folder: the brand, the extractor, the field map, the
\* line-item table, the path returned and the files left in the output
\* folder
CAlone(doc) ==
    LET b == detect_brand(BatchTexts[doc.pages])
        path == PdfPath(doc.name)
    IN  IF ~doc.opens
        THEN [brand |-> "unset", extractor |-> UnsetExtractor,
              header |-> Unset, items |-> Unset, out |-> None, books |-> {}]
        ELSE IF b = None
        THEN [brand |-> None, extractor |-> UnsetExtractor,
              header |-> Unset, items |-> Unset, out |-> None, books |-> {}]
        ELSE [brand |-> b, extractor |-> get_extractor(path, b),
              header |-> extract(doc).header,
              items |-> extract(doc).items,
              out |-> IF CWriteRaises(doc) THEN None ELSE OutPath(path, b),
              books |-> IF doc.writes = "template_raises" THEN {}
                        ELSE {Workbook(OutPath(path, b), extract(doc).header,
                                       extract(doc).items,
                                       doc.writes = "sheet_raises")}]

\* C20: when process_invoice returns for a document, wherever the document
\* stands in the batch and whatever happened to the documents before it,
\* the brand, the extractor, the field map, the line-item table and the
\* path returned are those the document gives when processed alone; the
\* files of the output folder are those each document processed so far
\* leaves when processed alone; and no file written is a file that is
\* read, the template or a PDF of the input folder.
BatchResultOfDocumentAlone ==
    /\ ppc = "returned" =>
          /\ pbrand = CAlone(pdf_files[di]).brand
          /\ extractor = CAlone(pdf_files[di]).extractor
          /\ header_dict = CAlone(pdf_files[di]).header
          /\ items_df = CAlone(pdf_files[di]).items
          /\ out_path = CAlone(pdf_files[di]).out
    /\ ppc \in {"loop", "returned"} =>
          /\ workbooks = UNION {CAlone(pdf_files[j]).books : j \in 1..di}
          /\ outputs = {w.path : w \in workbooks}
    /\ \A p \in outputs :
          /\ p # TEMPLATE_PATH
          /\ \A j \in 1..Len(pdf_files) : p # PdfPath(pdf_files[j].name)

\* the second document of a batch has been extracted and written after the
\* first one raised inside the with block of the writer, which left a
\* book with a part of its items in the output folder
BatchSecondAfterFailureSeen ==
    /\ ppc = "returned" /\ di = 2
    /\ pdf_files[1].writes = "sheet_raises" /\ results["failed"] = 1
    /\ \E w \in workbooks : w.items = "partial"
    /\ Cardinality(workbooks) = 2
    /\ out_path # None /\ pbrand = "blinkit"
    /\ header_dict = BatchHeader /\ items_df = BatchItems

(***************************************************************************)
(* Instamart header: the address scans of extract_header                   *)
(* (extractors_instamart.py)                                               *)
(***************************************************************************)
MaxMLines == 3

\* normalize(lines) of one line: the glued labels get their blank
NormalizeLine(l) ==
    Replace(Replace(Replace(Replace(Replace(Replace(Replace(Replace(l,
        "InvoiceTo", "Invoice To"),
        "CustomerAddress", "Customer Address"),
        "OrderID", "Order ID"),
        "InvoiceNo", "Invoice No"),
        "DateofInvoice", "Date of Invoice"),
        "SellerName", "Seller Name"),
        "SellerGSTIN", "Seller GSTIN"),
        "PlaceofSupply", "Place of Supply")

\* normalize(lines)
normalize(lines) == [i \in 1..Len(lines) |-> NormalizeLine(lines[i])]

\* l.split(key, 1)[-1].replace(":", "").strip(), of a line that holds key
Remainder(l, key) == Strip(RemoveCh(AfterFirst(l, key), ":"))

\* grab_left(key), grab_right(key): of the first line that starts with key
grab(lines, key) ==
    IF \E i \in 1..Len(lines) : StartsWith(lines[i], key)
    THEN LET i == CHOOSE i \in 1..Len(lines) :
                    /\ StartsWith(lines[i], key)
                    /\ \A j \in 1..(i - 1) : ~StartsWith(lines[j], key)
         IN  Remainder(lines[i], key)
    ELSE ""

\* the lines chars_to_lines gives for the left and the right half of the
\* page: stripped, not empty
MLeftKinds ==
    { "InvoiceTo: Asha Rao", "CustomerAddress: 4 MG Road",
      "Customer Address", "Indiranagar", "OrderID: 778",
      "Ref Order ID 5" }
MRightKinds ==
    { "SellerName: Acme", "Address: 12 Park St", "Address", "Bengaluru",
      "State: Karnataka", "United States" }
MLeft == UNION { [1..n -> MLeftKinds] : n \in 0..MaxMLines }
MRight == UNION { [1..n -> MRightKinds] : n \in 0..MaxMLines }

\* the pages: every left half beside two right halves, every right half
\* beside two left halves
MPages ==
    LET l0 == { <<>>, <<"CustomerAddress: 4 MG Road", "OrderID: 778">> }
        r0 == { <<>>, <<"Address: 12 Park St", "State: Karnataka">> }
    IN  (MLeft \X r0) \cup (l0 \X MRight)

MNoData == [billing_address |-> "", seller_name |-> ""]

AddressIdle ==
    /\ left_lines = <<>> /\ right_lines = <<>> /\ capture = FALSE
    /\ customer_addr_lines = <<>> /\ seller_addr_lines = <<>>
    /\ customer_address = "" /\ mi = 0 /\ mdata = MNoData /\ mpc = "idle"

AddressInit ==
    /\ \E pg \in MPages : left_lines = pg[1] /\ right_lines = pg[2]
    /\ capture = FALSE
    /\ customer_addr_lines = <<>> /\ seller_addr_lines = <<>>
    /\ customer_address = "" /\ mi = 0 /\ mdata = MNoData
    /\ mpc = "normalize"

\* left_lines = normalize(left_lines); right_lines = normalize(right_lines);
\* customer_addr_lines = []; capture = False (lines 108-113)
NormalizeLines ==
    /\ mpc = "normalize"
    /\ left_lines' = normalize(left_lines)
    /\ right_lines' = normalize(right_lines)
    /\ customer_addr_lines' = <<>> /\ capture' = FALSE
    /\ mi' = 1 /\ mpc' = "customer"
    /\ UNCHANGED <<seller_addr_lines, customer_address, mdata, notAddress>>

\* if "Customer Address" in l: capture = True; the remainder is kept when
\* it is not empty; continue (lines 116-121)
CustomerMarker ==
    /\ mpc = "customer" /\ mi <= Len(left_lines)
    /\ Contains(left_lines[mi], "Customer Address")
    /\ capture' = TRUE
    /\ customer_addr_lines' =
          IF Remainder(left_lines[mi], "Customer Address") # ""
          THEN Append(customer_addr_lines,
                      Remainder(left_lines[mi], "Customer Address"))
          ELSE customer_addr_lines
    /\ mi' = mi + 1
    /\ UNCHANGED <<left_lines, right_lines, seller_addr_lines,
                   customer_address, mdata, mpc, notAddress>>

\* a line before the marker: capture is False
CustomerPass ==
    /\ mpc = "customer" /\ mi <= Len(left_lines)
    /\ ~Contains(left_lines[mi], "Customer Address")
    /\ ~capture
    /\ mi' = mi + 1
    /\ UNCHANGED <<left_lines, right_lines, capture, customer_addr_lines,
                   seller_addr_lines, customer_address, mdata, mpc,
                   notAddress>>

\* a break that first keeps the line it stops at
CustomerBreakKeepsLine ==
    /\ mpc = "customer" /\ mi <= Len(left_lines)
    /\ ~Contains(left_lines[mi], "Customer Address")
    /\ capture
    /\ Contains(left_lines[mi], "Order ID")
    /\ customer_addr_lines' = Append(customer_addr_lines, left_lines[mi])
    /\ mpc' = "customer_join"
    /\ UNCHANGED <<left_lines, right_lines, capture, seller_addr_lines,
                   customer_address, mi, mdata, notAddress>>

\* if capture: if "Order ID" in l: break (lines 123-125)
CustomerBreak ==
    /\ mpc = "customer" /\ mi <= Len(left_lines)
    /\ ~Contains(left_lines[mi], "Customer Address")
    /\ capture
    /\ Contains(left_lines[mi], "Order ID")
    /\ mpc' = "customer_join"
    /\ UNCHANGED <<left_lines, right_lines, capture, customer_addr_lines,
                   seller_addr_lines, customer_address, mi, mdata,
                   notAddress>>

\* if capture: customer_addr_lines.append(l) (lines 123-126)
CustomerAppend ==
    /\ mpc = "customer" /\ mi <= Len(left_lines)
    /\ ~Contains(left_lines[mi], "Customer Address")
    /\ capture
    /\ ~Contains(left_lines[mi], "Order ID")
    /\ customer_addr_lines' = Append(customer_addr_lines, left_lines[mi])
    /\ mi' = mi + 1
    /\ UNCHANGED <<left_lines, right_lines, capture, seller_addr_lines,
                   customer_address, mdata, mpc, notAddress>>

\* the for loop over left_lines is exhausted
CustomerEnd ==
    /\ mpc = "customer" /\ mi > Len(left_lines)
    /\ mpc' = "customer_join"
    /\ UNCHANGED <<left_lines, right_lines, capture, customer_addr_lines,
                   seller_addr_lines, customer_address, mi, mdata,
                   notAddress>>

\* customer_address = " ".join(customer_addr_lines).strip();
\* seller_addr_lines = []; capture = False (lines 128, 144-145)
CustomerJoin ==
    /\ mpc = "customer_join"
    /\ customer_address' = Strip(JoinSep(customer_addr_lines, " "))
    /\ seller_addr_lines' = <<>> /\ capture' = FALSE
    /\ mi' = 1 /\ mpc' = "seller"
    /\ UNCHANGED <<left_lines, right_lines, customer_addr_lines, mdata,
                   notAddress>>

\* if r.startswith("Address"): capture = True; the remainder is kept when
\* it is not empty; continue (lines 148-153)
SellerMarker ==
    /\ mpc = "seller" /\ mi <= Len(right_lines)
    /\ StartsWith(right_lines[mi], "Address")
    /\ capture' = TRUE
    /\ seller_addr_lines' =
          IF Remainder(right_lines[mi], "Address") # ""
          THEN Append(seller_addr_lines,
                      Remainder(right_lines[mi], "Address"))
          ELSE seller_addr_lines
    /\ mi' = mi + 1
    /\ UNCHANGED <<left_lines, right_lines, customer_addr_lines,
                   customer_address, mdata, mpc, notAddress>>

\* a line before the marker: capture is False
SellerPass ==
    /\ mpc = "seller" /\ mi <= Len(right_lines)
    /\ ~StartsWith(right_lines[mi], "Address")
    /\ ~capture
    /\ mi' = mi + 1
    /\ UNCHANGED <<left_lines, right_lines, capture, customer_addr_lines,
                   seller_addr_lines, customer_address, mdata, mpc,
                   notAddress>>

\* if capture: if r.startswith("State"): break (lines 155-157)
SellerBreak ==
    /\ mpc = "seller" /\ mi <= Len(right_lines)
    /\ ~StartsWith(right_lines[mi], "Address")
    /\ capture
    /\ StartsWith(right_lines[mi], "State")
    /\ mpc' = "seller_join"
    /\ UNCHANGED <<left_lines, right_lines, capture, customer_addr_lines,
                   seller_addr_lines, customer_address, mi, mdata,
                   notAddress>>

\* if capture: seller_addr_lines.append(r) (lines 155-158)
SellerAppend ==
    /\ mpc = "seller" /\ mi <= Len(right_lines)
    /\ ~StartsWith(right_lines[mi], "Address")
    /\ capture
    /\ ~StartsWith(right_lines[mi], "State")
    /\ seller_addr_lines' = Append(seller_addr_lines, right_lines[mi])
    /\ mi' = mi + 1
    /\ UNCHANGED <<left_lines, right_lines, capture, customer_addr_lines,
                   customer_address, mdata, mpc, notAddress>>

\* the for loop over right_lines is exhausted
SellerEnd ==
    /\ mpc = "seller" /\ mi > Len(right_lines)
    /\ mpc' = "seller_join"
    /\ UNCHANGED <<left_lines, right_lines, capture, customer_addr_lines,
                   seller_addr_lines, customer_address, mi, mdata,
                   notAddress>>

\* seller_address, seller_name and the address fields of data (lines
\* 160-161, 166-184)
SellerJoin ==
    /\ mpc = "seller_join"
    /\ LET seller_address == Strip(JoinSep(seller_addr_lines, " "))
           seller_name == grab(right_lines, "Seller Name")
       IN  mdata' = [ order_number |-> grab(left_lines, "Order ID"),
                      billing_address |-> customer_address,
                      shipping_address |-> customer_address,
                      seller_name |-> seller_name,
                      seller_address |-> seller_address,
                      seller_info |-> seller_name \o ", " \o seller_address ]
    /\ mpc' = "done"
    /\ UNCHANGED <<left_lines, right_lines, capture, customer_addr_lines,
                   seller_addr_lines, customer_address, mi, notAddress>>

AddressNext ==
    \/ NormalizeLines
    \/ CustomerMarker
    \/ CustomerPass
    \/ CustomerBreak
    \/ CustomerAppend
    \/ CustomerEnd
    \/ CustomerJoin
    \/ SellerMarker
    \/ SellerPass
    \/ SellerBreak
    \/ SellerAppend
    \/ SellerEnd
    \/ SellerJoin

\* the first index of a set of line indices, 0 when it is empty
CFirstOf(idx) == IF idx = {} THEN 0 ELSE CHOOSE i \in idx : \A j \in idx : i <= j

\* the start-marker line of the left column and the end-marker line after
\* it (one past the last line when there is none)
CCustomerStart(lines) ==
    CFirstOf({i \in 1..Len(lines) : Contains(lines[i], "Customer Address")})
CCustomerStop(lines) ==
    LET e == CFirstOf({i \in (CCustomerStart(lines) + 1)..Len(lines) :
                          Contains(lines[i], "Order ID")})
    IN  IF e = 0 THEN Len(lines) + 1 ELSE e

\* the same of the right column
CSellerStart(lines) ==
    CFirstOf({i \in 1..Len(lines) : StartsWith(lines[i], "Address")})
CSellerStop(lines) ==
    LET e == CFirstOf({i \in (CSellerStart(lines) + 1)..Len(lines) :
                          StartsWith(lines[i], "State")})
    IN  IF e = 0 THEN Len(lines) + 1 ELSE e

\* the remainder of the start-marker line s, when it has one, and the
\* lines after it before the line e, joined by blanks
CBetween(lines, s, e, key) ==
    IF s = 0 THEN ""
    ELSE Strip(JoinSep((IF Remainder(lines[s], key) = "" THEN <<>>
                        ELSE <<Remainder(lines[s], key)>>)
                          \o SubSeq(lines, s + 1, e - 1), " "))

\* C21: the customer address is the remainder of the first "Customer
\* Address" line joined with every following left line before the first
\* following line that holds "Order ID", and the seller address the same
\* between the first line starting with "Address" and the first following
\* line starting with "State".
AddressIsLinesBetweenMarkers ==
    mpc = "done" =>
        /\ mdata.billing_address =
              CBetween(left_lines, CCustomerStart(left_lines),
                       CCustomerStop(left_lines), "Customer Address")
        /\ mdata.seller_address =
              CBetween(right_lines, CSellerStart(right_lines),
                       CSellerStop(right_lines), "Address")

\* the end-marker line of the left column when a line that holds the start
\* marker is never one
CCustomerStopLater(lines) ==
    LET e == CFirstOf({i \in (CCustomerStart(lines) + 1)..Len(lines) :
                          /\ Contains(lines[i], "Order ID")
                          /\ ~Contains(lines[i], "Customer Address")})
    IN  IF e = 0 THEN Len(lines) + 1 ELSE e

\* the lines from s to before e, joined by blanks, each line that holds
\* the start marker giving its remainder only, nothing when that is empty
CBetweenRemainders(lines, s, e, key, marked) ==
    IF s = 0 THEN ""
    ELSE LET parts == [i \in 1..(e - s) |->
                          IF (s + i - 1) \in marked
                          THEN Remainder(lines[s + i - 1], key)
                          ELSE lines[s + i - 1]]
         IN  Strip(JoinSep(SelectSeq(parts, LAMBDA x : x # ""), " "))

\* C21, amended: as above, but every line that holds the start marker,
\* the first or a later one, gives only its remainder and never ends the
\* capture; lines before the first start marker and from the end marker on
\* give nothing.
AddressIsRemaindersAndLinesBetweenMarkers ==
    mpc = "done" =>
        /\ mdata.billing_address =
              CBetweenRemainders(left_lines, CCustomerStart(left_lines),
                  CCustomerStopLater(left_lines), "Customer Address",
                  {i \in 1..Len(left_lines) :
                      Contains(left_lines[i], "Customer Address")})
        /\ mdata.shipping_address = mdata.billing_address
        /\ mdata.seller_address =
              CBetweenRemainders(right_lines, CSellerStart(right_lines),
                  CSellerStop(right_lines), "Address",
                  {i \in 1..Len(right_lines) :
                      StartsWith(right_lines[i], "Address")})

\* a left column with the start marker, a line and the end marker was
\* scanned: the address is the remainder and the line
AddressTwoLinesSeen ==
    /\ mpc = "done"
    /\ left_lines = << "Customer Address: 4 MG Road", "Indiranagar",
                       "Order ID: 778" >>
    /\ mdata.billing_address = "4 MG Road Indiranagar"
    /\ mdata.order_number = "778"

(***************************************************************************)
(* Claims about a document whose extraction raises (base.py, main.py)      *)
(***************************************************************************)
\* the document is opened, is of a brand, and a method of its extractor
\* raises inside extract()
CExtractionRaises(doc) ==
    /\ doc.opens /\ doc.writes # "template_raises"
    /\ detect_brand(BatchTexts[doc.pages]) # None
    /\ doc.extract \in {"header_raises", "items_raise"}

\* the output file of a document: its name with ".pdf" replaced by the
\* detected brand and "_output.xlsx", in the output folder
CPathOf(doc) ==
    OUTPUT_DIR \o "\\" \o SubSeq(doc.name, 1, Len(doc.name) - 4) \o "_"
        \o detect_brand(BatchTexts[doc.pages]) \o "_output.xlsx"

\* C22: when a method of the extractor raises inside extract(), extract()
\* gives process_invoice an empty field map and an empty item table;
\* process_invoice writes the document's output file with every template
\* value blank and returns its path; the batch loop then adds one to the
\* counter of the brand detected for the document and to no other counter.
ExtractionFailureWrittenAndTallied ==
    /\ [](\A j \in 1..di : CExtractionRaises(pdf_files[j]) =>
            /\ (j = di /\ ppc = "write") =>
                  /\ DOMAIN header_dict = {}
                  /\ Len(items_df.rows) = 0 /\ Len(items_df.columns) = 0
            /\ (j < di \/ ppc \in {"returned", "loop"}) =>
                  \E w \in workbooks :
                      /\ w.path = CPathOf(pdf_files[j])
                      /\ \A i \in DOMAIN w.values : w.values[i] = PyStr("")
            /\ (j = di /\ ppc = "returned") =>
                  out_path = CPathOf(pdf_files[j]))
    /\ [][(ppc = "returned" /\ CExtractionRaises(pdf_files[di])) =>
             LET b == detect_brand(BatchTexts[pdf_files[di].pages])
             IN  /\ results'[b] = results[b] + 1
                 /\ \A k \in DOMAIN results \ {b} :
                       results'[k] = results[k]]_vars

(***************************************************************************)
(* Specifications: one per component, the others idle                      *)
(***************************************************************************)
InitBrand ==
    /\ BrandInit /\ ZomatoIdle /\ AmazonIdle /\ ValidatorIdle
    /\ FlipkartIdle /\ BlinkitIdle /\ BatchIdle /\ InstamartIdle
    /\ ExtractIdle /\ HandlesIdle /\ ClusterIdle /\ AddressIdle
SpecBrand == InitBrand /\ [][DetectBrand]_vars

InitZomato ==
    /\ ZomatoInit /\ BrandIdle /\ AmazonIdle /\ ValidatorIdle
    /\ FlipkartIdle /\ BlinkitIdle /\ BatchIdle /\ InstamartIdle
    /\ ExtractIdle /\ HandlesIdle /\ ClusterIdle /\ AddressIdle
SpecZomato == InitZomato /\ [][ZomatoNext]_vars

InitAmazon ==
    /\ AmazonInit /\ BrandIdle /\ ZomatoIdle /\ ValidatorIdle
    /\ FlipkartIdle /\ BlinkitIdle /\ BatchIdle /\ InstamartIdle
    /\ ExtractIdle /\ HandlesIdle /\ ClusterIdle /\ AddressIdle
SpecAmazon == InitAmazon /\ [][AmazonTotals]_vars

InitValidator ==
    /\ ValidatorInit /\ BrandIdle /\ ZomatoIdle /\ AmazonIdle
    /\ FlipkartIdle /\ BlinkitIdle /\ BatchIdle /\ InstamartIdle
    /\ ExtractIdle /\ HandlesIdle /\ ClusterIdle /\ AddressIdle
SpecValidator == InitValidator /\ [][ValidatorNext]_vars

InitFlipkart ==
    /\ FlipkartInit /\ BrandIdle /\ ZomatoIdle /\ AmazonIdle
    /\ ValidatorIdle /\ BlinkitIdle /\ BatchIdle /\ InstamartIdle
    /\ ExtractIdle /\ HandlesIdle /\ ClusterIdle /\ AddressIdle
SpecFlipkart == InitFlipkart /\ [][FlipkartItems]_vars

InitBlinkit ==
    /\ BlinkitInit /\ BrandIdle /\ ZomatoIdle /\ AmazonIdle
    /\ ValidatorIdle /\ FlipkartIdle /\ BatchIdle /\ InstamartIdle
    /\ ExtractIdle /\ HandlesIdle /\ ClusterIdle /\ AddressIdle
SpecBlinkit == InitBlinkit /\ [][BlinkitNext]_vars

InitBatch ==
    /\ BatchInit /\ BrandIdle /\ ZomatoIdle /\ AmazonIdle /\ ValidatorIdle
    /\ FlipkartIdle /\ BlinkitIdle /\ InstamartIdle /\ ExtractIdle
    /\ HandlesIdle /\ ClusterIdle /\ AddressIdle
SpecBatch == InitBatch /\ [][BatchNext]_vars

InitInstamart ==
    /\ InstamartInit /\ BrandIdle /\ ZomatoIdle /\ AmazonIdle
    /\ ValidatorIdle /\ FlipkartIdle /\ BlinkitIdle /\ BatchIdle
    /\ ExtractIdle /\ HandlesIdle /\ ClusterIdle /\ AddressIdle
SpecInstamart == InitInstamart /\ [][InstamartItems]_vars

InitExtract ==
    /\ ExtractInit /\ BrandIdle /\ ZomatoIdle /\ AmazonIdle
    /\ ValidatorIdle /\ FlipkartIdle /\ BlinkitIdle /\ BatchIdle
    /\ InstamartIdle /\ HandlesIdle /\ ClusterIdle /\ AddressIdle
SpecExtract == InitExtract /\ [][ExtractNext]_vars

InitHandles ==
    /\ HandlesInit /\ BrandIdle /\ ZomatoIdle /\ AmazonIdle
    /\ ValidatorIdle /\ FlipkartIdle /\ BlinkitIdle /\ BatchIdle
    /\ InstamartIdle /\ ExtractIdle /\ ClusterIdle /\ AddressIdle
SpecHandles == InitHandles /\ [][HandlesNext]_vars

InitCluster ==
    /\ ClusterInit /\ BrandIdle /\ ZomatoIdle /\ AmazonIdle
    /\ ValidatorIdle /\ FlipkartIdle /\ BlinkitIdle /\ BatchIdle
    /\ InstamartIdle /\ ExtractIdle /\ HandlesIdle /\ AddressIdle
SpecCluster == InitCluster /\ [][ClusterNext]_vars

InitAddress ==
    /\ AddressInit /\ BrandIdle /\ ZomatoIdle /\ AmazonIdle
    /\ ValidatorIdle /\ FlipkartIdle /\ BlinkitIdle /\ BatchIdle
    /\ InstamartIdle /\ ExtractIdle /\ HandlesIdle /\ ClusterIdle
SpecAddress == InitAddress /\ [][AddressNext]_vars

\* the batch loop is sequential code that runs on while it has a next
\* statement: its steps are weakly fair
SpecBatchFair == InitBatch /\ [][BatchNext]_vars /\ WF_vars(BatchNext)

====
